---------------------------- MODULE Spec2Model ----------------------------
(***************************************************************************)
(* Model of the collaborative editing server of OT-editor (poc/server):    *)
(*   - ot-service.js: DocumentOperation and EnhancedOTService (transform,  *)
(*     transformAgainstOperations, applyOperation, mergeOperations);       *)
(*   - enhanced-document-manager.js: EnhancedDocumentManager;              *)
(*   - index.js (src/unnamed/part_007): the socket.io handlers.            *)
(*                                                                         *)
(* Text is a sequence of one-character strings.  An absent (undefined)     *)
(* content is the empty sequence and an absent length is 0: the code reads *)
(* both only through (op.content?.length || 0), (op.content || '') and     *)
(* (op.length || 0), which give the same values.                           *)
(***************************************************************************)
EXTENDS Integers, Sequences, FiniteSets, TLC

(***************************************************************************)
(* ot-service.js                                                           *)
(***************************************************************************)

\* The value null / undefined (an absorbed operation, a missing map entry).
Null == [type |-> "null"]

\* The id of an operation built by `new DocumentOperation` inside transform:
\* a fresh uuid, equal to no other id.
FreshId == 0

Max(a, b) == IF a >= b THEN a ELSE b
Min(a, b) == IF a <= b THEN a ELSE b

\* String.prototype.slice(start, end): negative indices count from the end,
\* indices are clamped to [0, length].
SliceIndex(n, i) == IF i < 0 THEN Max(n + i, 0) ELSE Min(i, n)
Slice(s, start, end) ==
    LET from == SliceIndex(Len(s), start)
        to   == SliceIndex(Len(s), end)
    IN  IF from < to THEN SubSeq(s, from + 1, to) ELSE << >>
SliceFrom(s, start) == Slice(s, start, Len(s))

\* new DocumentOperation(type, position, content, length, userId, timestamp,
\* clientId): a fresh id, applied = false.
DocumentOperation(type, position, content, length, userId, timestamp) ==
    [type |-> type, position |-> position, content |-> content,
     length |-> length, userId |-> userId, timestamp |-> timestamp,
     id |-> FreshId, applied |-> FALSE]

\* The copies the transform functions build: every field of op except the
\* position (and, where given, the length).
Moved(op, position) ==
    DocumentOperation(op.type, position, op.content, op.length, op.userId, op.timestamp)
Resized(op, position, length) ==
    DocumentOperation(op.type, position, op.content, length, op.userId, op.timestamp)

\* (op.content?.length || 0) and (op.length || 0)
CLen(op) == Len(op.content)
DLen(op) == op.length

\* op1.id === op2.id.  Two fresh uuids are never equal.
SameId(op1, op2) == op1.id = op2.id /\ op1.id # FreshId

\* transformInsertInsert that shifts neither insert.
transformInsertInsertUnshifted(op1, op2, op1HasPriority) == <<op1, op2>>

transformInsertInsert(op1, op2, op1HasPriority) ==
    IF op1.position < op2.position \/ (op1.position = op2.position /\ op1HasPriority)
    THEN <<op1, Moved(op2, op2.position + CLen(op1))>>
    ELSE <<Moved(op1, op1.position + CLen(op2)), op2>>

\* transformInsertDelete that leaves an insert inside the deleted range where
\* it is.
transformInsertDeleteUnclamped(op1, op2) ==
    IF op1.position <= op2.position
    THEN <<op1, Moved(op2, op2.position + CLen(op1))>>
    ELSE IF op1.position >= op2.position + DLen(op2)
    THEN <<Moved(op1, op1.position - DLen(op2)), op2>>
    ELSE <<op1, op2>>

transformInsertDelete(op1, op2) ==
    IF op1.position <= op2.position
    THEN <<op1, Moved(op2, op2.position + CLen(op1))>>
    ELSE IF op1.position >= op2.position + DLen(op2)
    THEN <<Moved(op1, op1.position - DLen(op2)), op2>>
    ELSE <<Moved(op1, op2.position), op2>>

transformInsertReplace(op1, op2) ==
    IF op1.position <= op2.position
    THEN <<op1, Moved(op2, op2.position + CLen(op1))>>
    ELSE IF op1.position >= op2.position + DLen(op2)
    THEN <<Moved(op1, op1.position - DLen(op2) + CLen(op2)), op2>>
    ELSE <<Moved(op1, op2.position + CLen(op2)), op2>>

transformDeleteInsert(op1, op2) ==
    IF op2.position <= op1.position
    THEN <<Moved(op1, op1.position + CLen(op2)), op2>>
    ELSE IF op2.position >= op1.position + DLen(op1)
    THEN <<op1, Moved(op2, op2.position - DLen(op1))>>
    ELSE <<op1, Moved(op2, op1.position)>>

transformDeleteDelete(op1, op2) ==
    IF op1.position + DLen(op1) <= op2.position
    THEN <<op1, Moved(op2, op2.position - DLen(op1))>>
    ELSE IF op2.position + DLen(op2) <= op1.position
    THEN <<Moved(op1, op1.position - DLen(op2)), op2>>
    ELSE
      LET op1Start == op1.position
          op1End   == op1.position + DLen(op1)
          op2Start == op2.position
          op2End   == op2.position + DLen(op2)
          overlapStart  == Max(op1Start, op2Start)
          overlapEnd    == Min(op1End, op2End)
          overlapLength == Max(0, overlapEnd - overlapStart)
          newOp1 == Resized(op1, op1.position, Max(0, DLen(op1) - overlapLength))
          newOp2 == Resized(op2, op2.position, Max(0, DLen(op2) - overlapLength))
      IN  <<IF newOp1.length > 0 THEN newOp1 ELSE Null,
            IF newOp2.length > 0 THEN newOp2 ELSE Null>>

\* transformDeleteReplace that leaves a replace after the deleted range at
\* its position.
transformDeleteReplaceUnmoved(op1, op2) ==
    IF op1.position + DLen(op1) <= op2.position
    THEN <<op1, op2>>
    ELSE IF op2.position + DLen(op2) <= op1.position
    THEN <<Moved(op1, op1.position - DLen(op2) + CLen(op2)), op2>>
    ELSE
      LET overlap == Min(op1.position + DLen(op1), op2.position + DLen(op2))
                       - Max(op1.position, op2.position)
      IN  <<Resized(op1, op1.position, Max(0, DLen(op1) - overlap)), op2>>

transformDeleteReplace(op1, op2) ==
    IF op1.position + DLen(op1) <= op2.position
    THEN <<op1, Moved(op2, op2.position - DLen(op1))>>
    ELSE IF op2.position + DLen(op2) <= op1.position
    THEN <<Moved(op1, op1.position - DLen(op2) + CLen(op2)), op2>>
    ELSE
      LET overlap == Min(op1.position + DLen(op1), op2.position + DLen(op2))
                       - Max(op1.position, op2.position)
      IN  <<Resized(op1, op1.position, Max(0, DLen(op1) - overlap)), op2>>

transformReplaceInsert(op1, op2) ==
    IF op2.position <= op1.position
    THEN <<Moved(op1, op1.position + CLen(op2)), op2>>
    ELSE IF op2.position >= op1.position + DLen(op1)
    THEN <<op1, Moved(op2, op2.position - DLen(op1) + CLen(op1))>>
    ELSE <<op1, Moved(op2, op1.position + CLen(op1))>>

transformReplaceDelete(op1, op2) ==
    IF op2.position + DLen(op2) <= op1.position
    THEN <<Moved(op1, op1.position - DLen(op2)), op2>>
    ELSE IF op1.position + DLen(op1) <= op2.position
    THEN <<op1, Moved(op2, op2.position - DLen(op1) + CLen(op1))>>
    ELSE
      LET overlap == Min(op1.position + DLen(op1), op2.position + DLen(op2))
                       - Max(op1.position, op2.position)
      IN  <<op1, Resized(op2, op1.position, Max(0, DLen(op2) - overlap))>>

transformReplaceReplace(op1, op2, op1HasPriority) ==
    IF op1.position + DLen(op1) <= op2.position
    THEN <<op1, Moved(op2, op2.position - DLen(op1) + CLen(op1))>>
    ELSE IF op2.position + DLen(op2) <= op1.position
    THEN <<Moved(op1, op1.position - DLen(op2) + CLen(op2)), op2>>
    ELSE IF op1HasPriority THEN <<op1, Null>> ELSE <<Null, op2>>

\* transform without the comparison of the ids (lines 57-59).
transformWithoutIdCheck(op1, op2, op1HasPriority) ==
         CASE op1.type = "insert"  /\ op2.type = "insert"  -> transformInsertInsert(op1, op2, op1HasPriority)
           [] op1.type = "insert"  /\ op2.type = "delete"  -> transformInsertDelete(op1, op2)
           [] op1.type = "insert"  /\ op2.type = "replace" -> transformInsertReplace(op1, op2)
           [] op1.type = "delete"  /\ op2.type = "insert"  -> transformDeleteInsert(op1, op2)
           [] op1.type = "delete"  /\ op2.type = "delete"  -> transformDeleteDelete(op1, op2)
           [] op1.type = "delete"  /\ op2.type = "replace" -> transformDeleteReplace(op1, op2)
           [] op1.type = "replace" /\ op2.type = "insert"  -> transformReplaceInsert(op1, op2)
           [] op1.type = "replace" /\ op2.type = "delete"  -> transformReplaceDelete(op1, op2)
           [] op1.type = "replace" /\ op2.type = "replace" -> transformReplaceReplace(op1, op2, op1HasPriority)
           [] OTHER -> <<op1, op2>>

\* transform whose default case drops the second operation.
transformDroppingUnpaired(op1, op2, op1HasPriority) ==
    IF SameId(op1, op2) THEN <<op1, Null>>
    ELSE CASE op1.type = "insert"  /\ op2.type = "insert"  -> transformInsertInsert(op1, op2, op1HasPriority)
           [] op1.type = "insert"  /\ op2.type = "delete"  -> transformInsertDelete(op1, op2)
           [] op1.type = "insert"  /\ op2.type = "replace" -> transformInsertReplace(op1, op2)
           [] op1.type = "delete"  /\ op2.type = "insert"  -> transformDeleteInsert(op1, op2)
           [] op1.type = "delete"  /\ op2.type = "delete"  -> transformDeleteDelete(op1, op2)
           [] op1.type = "delete"  /\ op2.type = "replace" -> transformDeleteReplace(op1, op2)
           [] op1.type = "replace" /\ op2.type = "insert"  -> transformReplaceInsert(op1, op2)
           [] op1.type = "replace" /\ op2.type = "delete"  -> transformReplaceDelete(op1, op2)
           [] op1.type = "replace" /\ op2.type = "replace" -> transformReplaceReplace(op1, op2, op1HasPriority)
           [] OTHER -> <<op1, Null>>

\* EnhancedOTService.transform(op1, op2, op1HasPriority)
transform(op1, op2, op1HasPriority) ==
    IF SameId(op1, op2) THEN <<op1, Null>>
    ELSE CASE op1.type = "insert"  /\ op2.type = "insert"  -> transformInsertInsert(op1, op2, op1HasPriority)
           [] op1.type = "insert"  /\ op2.type = "delete"  -> transformInsertDelete(op1, op2)
           [] op1.type = "insert"  /\ op2.type = "replace" -> transformInsertReplace(op1, op2)
           [] op1.type = "delete"  /\ op2.type = "insert"  -> transformDeleteInsert(op1, op2)
           [] op1.type = "delete"  /\ op2.type = "delete"  -> transformDeleteDelete(op1, op2)
           [] op1.type = "delete"  /\ op2.type = "replace" -> transformDeleteReplace(op1, op2)
           [] op1.type = "replace" /\ op2.type = "insert"  -> transformReplaceInsert(op1, op2)
           [] op1.type = "replace" /\ op2.type = "delete"  -> transformReplaceDelete(op1, op2)
           [] op1.type = "replace" /\ op2.type = "replace" -> transformReplaceReplace(op1, op2, op1HasPriority)
           [] OTHER -> <<op1, op2>>

\* The loop of transformAgainstOperations from index i on, transformedOp being
\* the operation transformed so far.
RECURSIVE TransformLoop(_, _, _)
TransformLoop(transformedOp, operations, i) ==
    IF i > Len(operations) THEN transformedOp
    ELSE LET op == operations[i] IN
         IF op.timestamp < transformedOp.timestamp
            \/ (op.timestamp = transformedOp.timestamp /\ op.userId < transformedOp.userId)
         THEN LET newOp == transform(transformedOp, op, FALSE)[1] IN
              IF newOp # Null THEN TransformLoop(newOp, operations, i + 1) ELSE Null
         ELSE TransformLoop(transformedOp, operations, i + 1)

\* EnhancedOTService.transformAgainstOperations(operation, operations);
\* operation.clone() keeps every field of the operation.
transformAgainstOperations(operation, operations) ==
    TransformLoop(operation, operations, 1)

\* applyOperation whose 'delete' case cuts the text at the position without
\* skipping the deleted range.
applyOperationKeepsRange(content, operation) ==
    IF operation = Null \/ operation.applied THEN content
    ELSE CASE operation.type = "insert" ->
                Slice(content, 0, operation.position) \o operation.content
                    \o SliceFrom(content, operation.position)
           [] operation.type = "delete" ->
                Slice(content, 0, operation.position)
                    \o SliceFrom(content, operation.position)
           [] operation.type = "replace" ->
                Slice(content, 0, operation.position) \o operation.content
                    \o SliceFrom(content, operation.position + DLen(operation))
           [] OTHER -> content

\* EnhancedOTService.applyOperation(content, operation)
applyOperation(content, operation) ==
    IF operation = Null \/ operation.applied THEN content
    ELSE CASE operation.type = "insert" ->
                Slice(content, 0, operation.position) \o operation.content
                    \o SliceFrom(content, operation.position)
           [] operation.type = "delete" ->
                Slice(content, 0, operation.position)
                    \o SliceFrom(content, operation.position + DLen(operation))
           [] operation.type = "replace" ->
                Slice(content, 0, operation.position) \o operation.content
                    \o SliceFrom(content, operation.position + DLen(operation))
           [] OTHER -> content

\* Array.prototype.sort is stable: x goes before the first element that the
\* comparator puts strictly after it.
RECURSIVE InsertByPositionTimestamp(_, _)
InsertByPositionTimestamp(sorted, x) ==
    IF sorted = << >> THEN <<x>>
    ELSE LET h == Head(sorted)
             after == IF h.position # x.position THEN h.position > x.position
                      ELSE h.timestamp > x.timestamp
         IN  IF after THEN <<x>> \o sorted
             ELSE <<h>> \o InsertByPositionTimestamp(Tail(sorted), x)

RECURSIVE SortByPositionTimestamp(_)
SortByPositionTimestamp(ops) ==
    IF ops = << >> THEN << >>
    ELSE InsertByPositionTimestamp(
             SortByPositionTimestamp(SubSeq(ops, 1, Len(ops) - 1)), ops[Len(ops)])

\* The loop of mergeOperations from index i on: merged is the output so far,
\* current the operation being extended.
RECURSIVE MergeLoop(_, _, _, _)
MergeLoop(sortedOps, i, merged, current) ==
    IF i > Len(sortedOps) THEN Append(merged, current)
    ELSE LET op == sortedOps[i] IN
         IF current.type = op.type /\ current.type = "insert"
            /\ current.position + CLen(current) = op.position
            /\ current.userId = op.userId
         THEN MergeLoop(sortedOps, i + 1, merged,
                        [current EXCEPT !.content = current.content \o op.content])
         ELSE IF current.type = op.type /\ current.type = "delete"
                 /\ current.position = op.position
                 /\ current.userId = op.userId
         THEN MergeLoop(sortedOps, i + 1, merged,
                        [current EXCEPT !.length = DLen(current) + DLen(op)])
         ELSE MergeLoop(sortedOps, i + 1, Append(merged, current), op)

\* mergeOperations without its merging loop: the operations sorted.
mergeOperationsSortedOnly(operations) ==
    IF Len(operations) = 0 THEN << >>
    ELSE IF Len(operations) = 1 THEN <<operations[1]>>
    ELSE SortByPositionTimestamp(operations)

\* EnhancedOTService.mergeOperations(operations), as the list its caller makes
\* of the result (null: no element; one operation: one element; an array: its
\* elements).  clone() keeps every field.
mergeOperations(operations) ==
    IF Len(operations) = 0 THEN << >>
    ELSE IF Len(operations) = 1 THEN <<operations[1]>>
    ELSE LET sortedOps == SortByPositionTimestamp(operations)
         IN  MergeLoop(sortedOps, 2, << >>, sortedOps[1])


(***************************************************************************)
(* Bounds and input sets                                                   *)
(***************************************************************************)

\* Operations accepted by the server in one behaviour of SpecFlush.
MaxOps == 2
\* Operations accepted in one behaviour of Spec and of SpecPeers.
MaxLifecycleOps == 1
MaxPeerOps == 1
\* Operations accepted in one behaviour of SpecRoom.
MaxRoomOps == 1
\* join-document messages handled in one behaviour (each makes a new user).
MaxJoins == 2
\* Overlapping saveDocument calls for one document in SpecStore, and the
\* number of writes in which writeFile puts a record into the file.
MaxSaves == 3
MaxChunks == 2
\* The longest text and the longest deleted or replaced range of SpecOT.
MaxText == 3
MaxRange == 2
\* Operations accepted in one behaviour of SpecBatch.
MaxBatchOps == 2
\* Operations accepted in one behaviour of SpecTimers.
MaxTimerOps == 3

Sockets == {"s1", "s2"}
UserIds == 1 .. MaxJoins

\* The document ids clients name.  KnownId has a snapshot on disk; of the
\* others one has no file, one an empty file and one an unparsable file.
KnownId == <<"d", "known">>
UnknownIds == {<<"d", "missing">>, <<"d", "empty">>, <<"d", "corrupt">>}
ClientIds == {KnownId} \cup UnknownIds
\* The ids uuidv4() gives the documents createDocument makes.
Uuid(n) == <<"uuid", n>>
UuidIds == {Uuid(n) : n \in 1 .. MaxJoins}
\* A document whose file parses but has no `operations` member.
BareId == <<"d", "bare">>
AllIds == ClientIds \cup {BareId} \cup UuidIds

\* The content of the persisted document when the server starts.
InitialContent == <<"a", "b", "c">>

\* The operation payloads clients send: {type, position, content, length}.
\* The last one is inadmissible on every content the model reaches (its
\* position lies beyond the text).
OpInputs ==
    { [type |-> "insert", position |-> 1, content |-> <<"X">>, length |-> 0],
      [type |-> "delete", position |-> 0, content |-> << >>,   length |-> 2],
      [type |-> "insert", position |-> 9, content |-> <<"Y">>, length |-> 0] }

\* The payloads of SpecBatch: inserts of "X" and of "Y" at position 1 and of
\* "Y" at position 2, and deletes of two characters at positions 0 and 1,
\* all within the persisted document's content.
BatchInputs ==
    { [type |-> "insert", position |-> 1, content |-> <<"X">>, length |-> 0],
      [type |-> "insert", position |-> 1, content |-> <<"Y">>, length |-> 0],
      [type |-> "insert", position |-> 2, content |-> <<"Y">>, length |-> 0] }
    \cup { [type |-> "delete", position |-> p, content |-> << >>, length |-> 2] :
               p \in 0 .. 1 }

\* The inputs of the OT algebra on its own: the texts "", "a", "ab", ...
\* and the operations of two users on them.
OTAlphabet == <<"a", "b", "c", "d", "e", "f">>
OTTexts == {SubSeq(OTAlphabet, 1, n) : n \in 0 .. MaxText}
OTOperations(userId, inserted) ==
    {DocumentOperation("insert", p, inserted, 0, userId, 1) : p \in 0 .. MaxText}
    \cup {DocumentOperation("delete", p, << >>, l, userId, 1) :
              p \in 0 .. MaxText, l \in 1 .. MaxRange}
    \cup {DocumentOperation("replace", p, inserted, l, userId, 1) :
              p \in 0 .. MaxText, l \in 1 .. MaxRange}

(***************************************************************************)
(* State                                                                   *)
(***************************************************************************)
VARIABLES
    docs,             \* the document objects ever made, by object number
    activeDocuments,  \* this.activeDocuments: id -> object number, 0 = no entry
    operationQueues,  \* this.operationQueues: id -> operations
    timers,           \* this.debouncedSaves and the pending setTimeout timers
    userSessions,     \* this.userSessions: socket id -> session or Null
    rooms,            \* socket.io rooms: socket id -> the rooms it is in
    sock,             \* per socket: the async handler in flight, if any
    flushes,          \* processOperationQueue calls awaiting saveDocument
    disk,             \* documentsDir: id -> the content of <id>.json
    now,              \* Date.now()
    nextOpId,         \* the number of DocumentOperations the handlers made, + 1
    assigned,         \* the user ids generateDummyUser has given out
    nCreated,         \* the number of uuids createDocument has drawn
    proc,             \* "running" or "exited"
    lastStep,         \* the handler step just taken and the messages it emitted
    delivered,        \* per socket and room: the content last delivered
    heard,            \* per socket: the rooms whose document-state it has got
    syncVersions,     \* per room: the versions of the document-syncs emitted
    batched,          \* ids of the operations some flush has read from a queue
    ot,               \* the OT algebra on its own: inputs and result
    store             \* saveDocument on its own: the files of one document

vars == <<docs, activeDocuments, operationQueues, timers, userSessions, rooms,
          sock, flushes, disk, now, nextOpId, assigned, nCreated, proc,
          lastStep, delivered, heard, syncVersions, batched, ot, store>>

managerVars == <<docs, activeDocuments, operationQueues, timers, userSessions,
                 rooms, sock, flushes, disk, now, nextOpId, assigned, nCreated,
                 proc, lastStep, delivered, heard, syncVersions, batched>>


(***************************************************************************)
(* enhanced-document-manager.js: data                                      *)
(***************************************************************************)

\* document.operations.slice(-10)
TailSize == 10
LastN(s, n) == IF Len(s) <= n THEN s ELSE SubSeq(s, Len(s) - n + 1, Len(s))

\* The document object createDocument builds.
NewDocument(id) ==
    [id |-> id, content |-> << >>, operations |-> << >>, hasOperations |-> TRUE,
     version |-> 1, activeUsers |-> {}, updatedAt |-> "recent"]

\* dataToSave of saveDocument, as written to <document.id>.json.  updatedAt is
\* kept as "recent" (within the last 30 minutes) or "old".
Snapshot(document) ==
    [kind |-> "snapshot", content |-> document.content,
     operations |-> document.operations,
     hasOperations |-> document.hasOperations, version |-> document.version,
     activeUsers |-> document.activeUsers, updatedAt |-> document.updatedAt]

\* What loadDocument makes of a parsable file: JSON.parse, then activeUsers
\* rebuilt as a Map from the saved object.  hasOperations: the object has an
\* `operations` array (JSON.parse adds no member the file lacks).
ParsedDocument(id, data) ==
    [id |-> id, content |-> data.content, operations |-> data.operations,
     hasOperations |-> data.hasOperations, version |-> data.version, activeUsers |-> data.activeUsers,
     updatedAt |-> data.updatedAt]

NoFile == [kind |-> "missing"]

\* No async join or disconnect handler of the socket is in flight.
NoHandler == [phase |-> "idle", documentId |-> <<"d", "none">>, doc |-> 0, user |-> 0]
Gone == [phase |-> "disconnected", documentId |-> <<"d", "none">>, doc |-> 0, user |-> 0]

NoTimer == [reg |-> "none", stale |-> 0]

MembersMutant(rm, room) == Sockets

\* The sockets in a socket.io room.
Members(rm, room) == {s \in Sockets : room \in rm[s]}

\* The registered document of an id, or Null.
DocumentOf(id) ==
    IF activeDocuments[id] = 0 THEN Null ELSE docs[activeDocuments[id]]

(***************************************************************************)
(* processOperationQueue, lines 180-230: the synchronous part of a flush   *)
(***************************************************************************)

\* The keys of operationsByUser in insertion order.
RECURSIVE UserOrder(_, _)
UserOrder(queue, seen) ==
    IF queue = << >> THEN << >>
    ELSE IF Head(queue).userId \in seen THEN UserOrder(Tail(queue), seen)
    ELSE <<Head(queue).userId>> \o UserOrder(Tail(queue), seen \cup {Head(queue).userId})

OpsOfUser(queue, userId) ==
    LET ByUser(op) == op.userId = userId IN SelectSeq(queue, ByUser)

\* processedOperations before the sort: each user's merged operations.
RECURSIVE MergedByUser(_, _)
MergedByUser(queue, users) ==
    IF users = << >> THEN << >>
    ELSE mergeOperations(OpsOfUser(queue, Head(users))) \o MergedByUser(queue, Tail(users))

RECURSIVE InsertByTimestamp(_, _)
InsertByTimestamp(sorted, x) ==
    IF sorted = << >> THEN <<x>>
    ELSE IF Head(sorted).timestamp > x.timestamp THEN <<x>> \o sorted
    ELSE <<Head(sorted)>> \o InsertByTimestamp(Tail(sorted), x)

\* processedOperations.sort((a, b) => a.timestamp - b.timestamp), stable.
RECURSIVE SortByTimestamp(_)
SortByTimestamp(ops) ==
    IF ops = << >> THEN << >>
    ELSE InsertByTimestamp(SortByTimestamp(SubSeq(ops, 1, Len(ops) - 1)), ops[Len(ops)])

ProcessedOperations(queue) ==
    SortByTimestamp(MergedByUser(queue, UserOrder(queue, {})))

\* The loop of lines 210-223 from index i on.
RECURSIVE ApplyLoop(_, _, _, _)
ApplyLoop(processedOperations, i, currentContent, appliedOperations) ==
    IF i > Len(processedOperations)
    THEN [content |-> currentContent, appliedOperations |-> appliedOperations]
    ELSE LET transformedOp ==
                 transformAgainstOperations(processedOperations[i], appliedOperations)
         IN  IF transformedOp # Null
             THEN ApplyLoop(processedOperations, i + 1,
                            applyOperation(currentContent, transformedOp),
                            Append(appliedOperations, [transformedOp EXCEPT !.applied = TRUE]))
             ELSE ApplyLoop(processedOperations, i + 1, currentContent, appliedOperations)

\* The document after lines 180-230 and the operations applied.  When the
\* document has no operations array, document.operations.push (line 221)
\* throws for the first operation of the batch, before anything of the
\* document has changed, and the catch of line 247 ends the call.
FlushDocument(document, queue) ==
    IF ~document.hasOperations /\ queue # << >>
    THEN [document |-> document, appliedOperations |-> << >>, threw |-> TRUE]
    ELSE
    LET r == ApplyLoop(ProcessedOperations(queue), 1, document.content, << >>)
    IN  [document |-> [document EXCEPT !.content = r.content,
                                       !.operations = @ \o r.appliedOperations,
                                       !.version = @ + 1,
                                       !.updatedAt = "recent"],
         appliedOperations |-> r.appliedOperations, threw |-> FALSE]

(***************************************************************************)
(* Messages and what the sockets have received                             *)
(***************************************************************************)

\* The content a message shows its receiver, as a one-element sequence.
ShownContent(m) ==
    IF m.event \in {"document-state", "document-sync"} THEN <<m.content>>
    ELSE IF m.event = "operation-immediate" THEN <<m.tempContent>>
    ELSE << >>

RECURSIVE LastShown(_, _, _, _)
LastShown(out, s, room, before) ==
    IF out = << >> THEN before
    ELSE LET m == Head(out)
             seen == IF s \in m.to /\ m.room = room /\ ShownContent(m) # << >>
                     THEN ShownContent(m) ELSE before
         IN  LastShown(Tail(out), s, room, seen)

RECURSIVE SyncVersionsOf(_, _)
SyncVersionsOf(out, room) ==
    IF out = << >> THEN << >>
    ELSE (IF Head(out).event = "document-sync" /\ Head(out).room = room
          THEN <<Head(out).version>> ELSE << >>) \o SyncVersionsOf(Tail(out), room)

NothingDelivered == [d \in ClientIds |-> << >>]

\* What a socket has heard: state, the rooms whose document-state it has
\* received; early, the rooms of which it received an operation-immediate or
\* a document-sync before any document-state.
NothingHeard == [state |-> {}, early |-> {}]

RECURSIVE Heard(_, _, _)
Heard(out, s, before) ==
    IF out = << >> THEN before
    ELSE LET m == Head(out)
             after ==
                 IF s \notin m.to THEN before
                 ELSE IF m.event = "document-state"
                 THEN [before EXCEPT !.state = @ \cup {m.room}]
                 ELSE IF m.event \in {"operation-immediate", "document-sync"}
                         /\ m.room \notin before.state
                 THEN [before EXCEPT !.early = @ \cup {m.room}]
                 ELSE before
         IN  Heard(Tail(out), s, after)

\* The step taken: its handler, socket, room and emitted messages; info holds
\* what the handler was given.
Step(action, socket, room, info, out) ==
    [action |-> action, socket |-> socket, room |-> room, info |-> info, out |-> out]

\* Records a step; gone are the sockets that have disconnected.
Record(step, gone) ==
    /\ lastStep' = step
    /\ delivered' = [s \in Sockets |->
                       IF s \in gone THEN NothingDelivered
                       ELSE [d \in ClientIds |-> LastShown(step.out, s, d, delivered[s][d])]]
    /\ heard' = [s \in Sockets |->
                   IF s \in gone THEN NothingHeard ELSE Heard(step.out, s, heard[s])]
    /\ syncVersions' = [d \in ClientIds |-> syncVersions[d] \o SyncVersionsOf(step.out, d)]


(***************************************************************************)
(* Initial state: the server has started, nothing is in memory             *)
(***************************************************************************)

OTIdle == ot = Null

ManagerInit ==
    /\ docs = << >>
    /\ activeDocuments = [d \in AllIds |-> 0]
    /\ operationQueues = [d \in AllIds |-> << >>]
    /\ timers = [d \in AllIds |-> NoTimer]
    /\ userSessions = [s \in Sockets |-> Null]
    /\ rooms = [s \in Sockets |-> {}]
    /\ sock = [s \in Sockets |-> NoHandler]
    /\ flushes = << >>
    /\ disk = [d \in AllIds |->
                 IF d = KnownId
                 THEN [kind |-> "snapshot", content |-> InitialContent,
                       operations |-> << >>, hasOperations |-> TRUE, version |-> 1,
                       activeUsers |-> {}, updatedAt |-> "old"]
                 ELSE IF d = BareId
                 THEN [kind |-> "snapshot", content |-> InitialContent,
                       operations |-> << >>, hasOperations |-> FALSE, version |-> 1,
                       activeUsers |-> {}, updatedAt |-> "old"]
                 ELSE IF d \in UnknownIds THEN [kind |-> d[2]] ELSE NoFile]
    /\ now = 1
    /\ nextOpId = 1
    /\ assigned = {}
    /\ nCreated = 0
    /\ proc = "running"
    /\ lastStep = Step("start", "-", KnownId, Null, << >>)
    /\ delivered = [s \in Sockets |-> NothingDelivered]
    /\ heard = [s \in Sockets |-> NothingHeard]
    /\ syncVersions = [d \in ClientIds |-> << >>]
    /\ batched = {}

StoreIdle == store = Null

Init == ManagerInit /\ OTIdle /\ StoreIdle

(***************************************************************************)
(* socket.on('operation'), queueOperation, applyOperationImmediate         *)
(***************************************************************************)

\* applyOperationImmediate with io.to(document.id) in place of
\* socket.to(document.id): the sender is not excluded.
applyOperationImmediateToAll(document, operation, s) ==
    LET recentOps == LastN(document.operations, TailSize)
        transformedOp == transformAgainstOperations(operation, recentOps)
    IN  IF ~document.hasOperations THEN << >>
        ELSE IF transformedOp = Null THEN << >>
        ELSE <<[event |-> "operation-immediate", room |-> document.id,
                to |-> Members(rooms, document.id),
                operation |-> transformedOp,
                tempContent |-> applyOperation(document.content, transformedOp)]>>

\* applyOperationImmediate(document, operation, socket, io): the messages
\* it emits; none when document.operations.slice throws (catch, line 276).
applyOperationImmediate(document, operation, s) ==
    LET recentOps == LastN(document.operations, TailSize)
        transformedOp == transformAgainstOperations(operation, recentOps)
    IN  IF ~document.hasOperations THEN << >>
        ELSE IF transformedOp = Null THEN << >>
        ELSE <<[event |-> "operation-immediate", room |-> document.id,
                to |-> Members(rooms, document.id) \ {s},
                operation |-> transformedOp,
                tempContent |-> applyOperation(document.content, transformedOp)]>>

\* queueOperation that also writes the echoed text into the document: the
\* tempContent of applyOperationImmediate becomes the document's content.
queueOperationApplying(documentId, operation, s) ==
    LET out == applyOperationImmediate(DocumentOf(documentId), operation, s)
    IN  /\ operationQueues' = [operationQueues EXCEPT ![documentId] = Append(@, operation)]
        /\ timers' = [timers EXCEPT ![documentId].reg = "pending"]
        /\ Record(Step("operation", s, documentId, operation, out), {})
        /\ docs' = IF out = << >> THEN docs
                   ELSE [docs EXCEPT ![activeDocuments[documentId]].content = out[1].tempContent]

\* queueOperation(documentId, operation, socket, io) for a registered
\* document: push, re-arm the debounce timer, echo.  The document object
\* is read (line 163) and not written.
queueOperation(documentId, operation, s) ==
    /\ operationQueues' = [operationQueues EXCEPT ![documentId] = Append(@, operation)]
    /\ timers' = [timers EXCEPT ![documentId].reg = "pending"]
    /\ Record(Step("operation", s, documentId, operation,
                   applyOperationImmediate(DocumentOf(documentId), operation, s)), {})
    /\ UNCHANGED docs

\* The 'operation' handler of a socket with a session, for a document that
\* is in memory (for any other id queueOperation returns null and nothing
\* changes).  Date.now() is the clock, which may have advanced.
OperationEvent(s, documentId, input, timestamp) ==
    /\ proc = "running"
    /\ sock[s].phase \in {"idle", "loading", "creating", "joinSaving"}
    /\ userSessions[s] # Null
    /\ activeDocuments[documentId] # 0
    /\ LET userSession == userSessions[s]
           op == [DocumentOperation(input.type, input.position, input.content,
                                    input.length, userSession.id, timestamp)
                    EXCEPT !.id = nextOpId]
       IN  queueOperation(documentId, op, s)
    /\ now' = timestamp
    /\ nextOpId' = nextOpId + 1
    /\ UNCHANGED <<activeDocuments, userSessions, rooms, sock, flushes,
                   disk, assigned, nCreated, proc, batched, ot, store>>

(***************************************************************************)
(* The debounce timer and processOperationQueue                            *)
(***************************************************************************)

OpIds(ops) == {ops[i].id : i \in 1 .. Len(ops)}

\* processOperationQueue(documentId, socket, io) up to `await saveDocument`.
processOperationQueue(documentId) ==
    LET document == DocumentOf(documentId)
        queue == operationQueues[documentId]
    IN  IF document = Null \/ queue = << >>
        THEN UNCHANGED <<docs, flushes, batched>>
        ELSE LET f == FlushDocument(document, queue)
             IN  IF f.threw THEN UNCHANGED <<docs, flushes, batched>> ELSE
                 /\ docs' = [docs EXCEPT ![activeDocuments[documentId]] = f.document]
                 /\ flushes' = Append(flushes,
                        [documentId |-> documentId, doc |-> activeDocuments[documentId],
                         appliedOperations |-> f.appliedOperations,
                         queue |-> queue,
                         before |-> document.content,
                         fromVersion |-> document.version,
                         content |-> f.document.content,
                         version |-> f.document.version])
                 /\ batched' = batched \cup OpIds(queue)

\* The timer registered in debouncedSaves fires.
TimerFires(documentId) ==
    /\ proc = "running"
    /\ timers[documentId].reg = "pending"
    /\ timers' = [timers EXCEPT ![documentId].reg = "fired"]
    /\ processOperationQueue(documentId)
    /\ Record(Step("timer", "-", documentId, Null, << >>), {})
    /\ UNCHANGED <<activeDocuments, operationQueues, userSessions, rooms, sock,
                   disk, now, nextOpId, assigned, nCreated, proc, ot, store>>

\* A timer fires whose handle debouncedSaves.delete dropped without
\* clearTimeout (line 245).
StaleTimerFires(documentId) ==
    /\ proc = "running"
    /\ timers[documentId].stale > 0
    /\ timers' = [timers EXCEPT ![documentId].stale = @ - 1]
    /\ processOperationQueue(documentId)
    /\ Record(Step("timer", "-", documentId, Null, << >>), {})
    /\ UNCHANGED <<activeDocuments, operationQueues, userSessions, rooms, sock,
                   disk, now, nextOpId, assigned, nCreated, proc, ot, store>>

Without(seq, i) == SubSeq(seq, 1, i - 1) \o SubSeq(seq, i + 1, Len(seq))

\* The document-sync of lines 236-241.
DocumentSync(documentId, document, appliedOperations) ==
    [event |-> "document-sync", room |-> documentId,
     to |-> Members(rooms, documentId), content |-> document.content,
     version |-> document.version, operations |-> appliedOperations]

\* processOperationQueue from the return of `await saveDocument` on: the
\* save succeeded (lines 235-245) or threw (line 248).
FlushSaved(i, ok) ==
    /\ proc = "running"
    /\ i \in 1 .. Len(flushes)
    /\ LET f == flushes[i]
           document == docs[f.doc]
           info == [ok |-> ok, queue |-> f.queue,
                    queued |-> operationQueues[f.documentId],
                    before |-> f.before, fromVersion |-> f.fromVersion,
                    content |-> f.content,
                    version |-> f.version]
       IN  IF ok
           THEN /\ disk' = [disk EXCEPT ![document.id] = Snapshot(document)]
                /\ operationQueues' = [operationQueues EXCEPT ![f.documentId] = << >>]
                /\ timers' = [timers EXCEPT ![f.documentId] =
                                [reg |-> "none",
                                 stale |-> @.stale + (IF @.reg = "pending" THEN 1 ELSE 0)]]
                /\ Record(Step("flush", "-", f.documentId, info,
                               <<DocumentSync(f.documentId, document, f.appliedOperations)>>), {})
           ELSE /\ UNCHANGED <<disk, operationQueues, timers>>
                /\ Record(Step("flush", "-", f.documentId, info, << >>), {})
    /\ flushes' = Without(flushes, i)
    /\ UNCHANGED <<docs, activeDocuments, userSessions, rooms, sock, now,
                   nextOpId, assigned, nCreated, proc, batched, ot, store>>


(***************************************************************************)
(* socket.on('join-document'), addUserToDocument, loadDocument,            *)
(* createDocument                                                          *)
(***************************************************************************)

ErrorTo(s, message) ==
    [event |-> "error", room |-> <<"d", "none">>, to |-> {s}, message |-> message]

\* addUserToDocument lines 291-305, up to `await saveDocument`, on document
\* object obj of docsNow.
AddUser(s, documentId, obj, user, docsNow) ==
    /\ userSessions' = [userSessions EXCEPT ![s] = [documentId |-> documentId, id |-> user]]
    /\ docs' = [docsNow EXCEPT ![obj].activeUsers = @ \cup {s}]
    /\ sock' = [sock EXCEPT ![s] = [phase |-> "joinSaving", documentId |-> documentId,
                                    doc |-> obj, user |-> user]]

\* The 'join-document' handler up to its first await that waits for I/O:
\* generateDummyUser, then loadDocument finds the document in memory
\* (line 55) or starts reading its file.
JoinDocument(s, documentId) ==
    /\ proc = "running"
    /\ sock[s].phase = "idle"
    /\ Cardinality(assigned) < MaxJoins
    /\ \E user \in UserIds \ assigned :
         /\ assigned' = assigned \cup {user}
         /\ IF activeDocuments[documentId] # 0
            THEN AddUser(s, documentId, activeDocuments[documentId], user, docs)
            ELSE /\ sock' = [sock EXCEPT ![s] = [phase |-> "loading", documentId |-> documentId,
                                                 doc |-> 0, user |-> user]]
                 /\ UNCHANGED <<docs, userSessions>>
    /\ Record(Step("join-document", s, documentId, Null, << >>), {})
    /\ UNCHANGED <<activeDocuments, operationQueues, timers, rooms, flushes, disk,
                   now, nextOpId, nCreated, proc, batched, ot, store>>

\* loadDocument from the return of readFile (or pathExists) on: a parsable
\* file is registered under the requested id (lines 75-90) and the user added;
\* a missing, empty or unparsable one makes createDocument build a document
\* under a new uuid and save it (lines 23-42).
LoadDone(s) ==
    /\ proc = "running"
    /\ sock[s].phase = "loading"
    /\ LET documentId == sock[s].documentId
           data == disk[documentId]
           obj == Len(docs) + 1
       IN  IF data.kind = "snapshot"
           THEN /\ activeDocuments' = [activeDocuments EXCEPT ![documentId] = obj]
                /\ AddUser(s, documentId, obj, sock[s].user,
                           Append(docs, ParsedDocument(documentId, data)))
                /\ UNCHANGED nCreated
           ELSE /\ nCreated' = nCreated + 1
                /\ docs' = Append(docs, NewDocument(Uuid(nCreated + 1)))
                /\ sock' = [sock EXCEPT ![s].phase = "creating", ![s].doc = obj]
                /\ UNCHANGED <<activeDocuments, userSessions>>
    /\ Record(Step("load", s, sock[s].documentId, Null, << >>), {})
    /\ UNCHANGED <<operationQueues, timers, rooms, flushes, disk, now, nextOpId,
                   assigned, proc, batched, ot, store>>

\* createDocument from the return of `await saveDocument` on (lines 43-46),
\* then addUserToDocument; or the save threw and the join ends in an error.
CreateSaved(s, ok) ==
    /\ proc = "running"
    /\ sock[s].phase = "creating"
    /\ LET obj == sock[s].doc
           document == docs[obj]
       IN  IF ok
           THEN /\ disk' = [disk EXCEPT ![document.id] = Snapshot(document)]
                /\ activeDocuments' = [activeDocuments EXCEPT ![document.id] = obj]
                /\ operationQueues' = [operationQueues EXCEPT ![document.id] = << >>]
                /\ AddUser(s, sock[s].documentId, obj, sock[s].user, docs)
                /\ Record(Step("create", s, sock[s].documentId, [ok |-> ok], << >>), {})
           ELSE /\ sock' = [sock EXCEPT ![s] = NoHandler]
                /\ Record(Step("create", s, sock[s].documentId, [ok |-> ok],
                               <<ErrorTo(s, IF disk[sock[s].documentId].kind = "corrupt"
                                            THEN "Failed to join document"
                                            ELSE "Document not found")>>), {})
                /\ UNCHANGED <<docs, activeDocuments, operationQueues, userSessions, disk>>
    /\ UNCHANGED <<timers, rooms, flushes, now, nextOpId, assigned, nCreated,
                   proc, batched, ot, store>>

\* activeUsers as document-state and users-updated list it.
UserList(document) == document.activeUsers

\* The 'join-document' handler from the return of addUserToDocument on
\* (lines 156-186), or its catch (line 189) when the save threw.
JoinSaved(s, ok) ==
    /\ proc = "running"
    /\ sock[s].phase = "joinSaving"
    /\ LET documentId == sock[s].documentId
           document == docs[sock[s].doc]
           joined == [rooms EXCEPT ![s] = @ \cup {documentId}]
       IN  IF ok
           THEN /\ disk' = [disk EXCEPT ![document.id] = Snapshot(document)]
                /\ rooms' = joined
                /\ Record(Step("joined", s, documentId, [ok |-> ok],
                     <<[event |-> "document-state", room |-> documentId, to |-> {s},
                        content |-> document.content, version |-> document.version,
                        activeUsers |-> UserList(document)],
                       [event |-> "user-joined", room |-> documentId,
                        to |-> Members(joined, documentId) \ {s}, socketId |-> s],
                       [event |-> "users-updated", room |-> documentId,
                        to |-> Members(joined, documentId),
                        activeUsers |-> UserList(document)]>>), {})
           ELSE /\ UNCHANGED <<disk, rooms>>
                /\ Record(Step("joined", s, documentId, [ok |-> ok],
                               <<ErrorTo(s, "Failed to join document")>>), {})
    /\ sock' = [sock EXCEPT ![s] = NoHandler]
    /\ UNCHANGED <<docs, activeDocuments, operationQueues, timers, userSessions,
                   flushes, now, nextOpId, assigned, nCreated, proc, batched, ot, store>>

(***************************************************************************)
(* socket.on('disconnect') and removeUserFromDocument                      *)
(***************************************************************************)

\* The condition of lines 325 and 327, on the session looked up at line 324.
ForcesFlush(userSession, documentId) ==
    /\ userSession # Null
    /\ \E i \in 1 .. Len(operationQueues[documentId]) :
           operationQueues[documentId][i].userId = userSession.id
    /\ timers[documentId].reg # "none"

UserLeft(s, documentId) ==
    [event |-> "user-left", room |-> documentId,
     to |-> Members(rooms, documentId) \ {s}, socketId |-> s]

\* The 'disconnect' handler up to `await saveDocument` of
\* removeUserFromDocument (line 334).  socket.io has taken the socket out of
\* its rooms before the handler runs.  A socket without a session just goes;
\* for a session whose document is not registered removeUserFromDocument
\* returns at once (line 315) and only user-left is emitted.  The forced
\* flush of lines 325-331 reads the session after line 320 deleted it; with
\* io = null the flush it would start ends in its catch after the save.
Disconnect(s) ==
    /\ proc = "running"
    /\ sock[s].phase = "idle"
    /\ rooms' = [rooms EXCEPT ![s] = {}]
    /\ IF userSessions[s] = Null
       THEN /\ sock' = [sock EXCEPT ![s] = Gone]
            /\ Record(Step("disconnect", s, <<"d", "none">>, Null, << >>), {s})
            /\ UNCHANGED <<docs, userSessions, timers>>
       ELSE LET documentId == userSessions[s].documentId
                obj == activeDocuments[documentId]
            IN  IF obj = 0
                THEN /\ sock' = [sock EXCEPT ![s] = Gone]
                     /\ Record(Step("disconnect", s, documentId, Null,
                                    <<UserLeft(s, documentId)>>), {s})
                     /\ UNCHANGED <<docs, userSessions, timers>>
                ELSE LET removed == [docs[obj] EXCEPT !.activeUsers = @ \ {s}]
                         sessions == [userSessions EXCEPT ![s] = Null]
                         userSession == sessions[s]
                     IN  /\ userSessions' = sessions
                         /\ IF ForcesFlush(userSession, documentId)
                            THEN /\ timers' = [timers EXCEPT ![documentId].reg = "none"]
                                 /\ docs' = [docs EXCEPT ![obj] =
                                       FlushDocument(removed, operationQueues[documentId]).document]
                            ELSE /\ docs' = [docs EXCEPT ![obj] = removed]
                                 /\ UNCHANGED timers
                         /\ sock' = [sock EXCEPT ![s] = [phase |-> "leaveSaving",
                                         documentId |-> documentId, doc |-> obj,
                                         user |-> userSessions[s].id]]
                         /\ Record(Step("disconnect", s, documentId, Null, << >>), {s})
    /\ UNCHANGED <<activeDocuments, operationQueues, flushes, disk, now, nextOpId,
                   assigned, nCreated, proc, batched, ot, store>>

\* The 'disconnect' handler from the return of removeUserFromDocument on
\* (lines 249-268), or its catch (line 270) when the save threw.
LeaveSaved(s, ok) ==
    /\ proc = "running"
    /\ sock[s].phase = "leaveSaving"
    /\ LET documentId == sock[s].documentId
           saved == docs[sock[s].doc]
           document == DocumentOf(documentId)
       IN  IF ok
           THEN /\ disk' = [disk EXCEPT ![saved.id] = Snapshot(saved)]
                /\ Record(Step("left", s, documentId, [ok |-> ok, user |-> sock[s].user],
                     <<UserLeft(s, documentId)>> \o
                     (IF document # Null
                      THEN <<[event |-> "users-updated", room |-> documentId,
                              to |-> Members(rooms, documentId),
                              activeUsers |-> UserList(document)]>>
                      ELSE << >>)), {s})
           ELSE /\ UNCHANGED disk
                /\ Record(Step("left", s, documentId, [ok |-> ok, user |-> sock[s].user],
                               << >>), {s})
    /\ sock' = [sock EXCEPT ![s] = Gone]
    /\ UNCHANGED <<docs, activeDocuments, operationQueues, timers, userSessions,
                   rooms, flushes, now, nextOpId, assigned, nCreated, proc, batched, ot, store>>

(***************************************************************************)
(* cleanupInactiveDocuments, the passing of time, shutdown                 *)
(***************************************************************************)

\* documentsToCleanup of lines 393-400.
DocumentsToCleanup ==
    {d \in AllIds : /\ activeDocuments[d] # 0
                    /\ docs[activeDocuments[d]].activeUsers = {}
                    /\ docs[activeDocuments[d]].updatedAt = "old"}

\* The cleanup interval fires and evicts at least one document.
CleanupInactiveDocuments ==
    /\ proc = "running"
    /\ DocumentsToCleanup # {}
    /\ activeDocuments' = [d \in AllIds |->
                             IF d \in DocumentsToCleanup THEN 0 ELSE activeDocuments[d]]
    /\ operationQueues' = [d \in AllIds |->
                             IF d \in DocumentsToCleanup THEN << >> ELSE operationQueues[d]]
    /\ timers' = [d \in AllIds |->
                    IF d \in DocumentsToCleanup
                    THEN [timers[d] EXCEPT !.reg = "none"] ELSE timers[d]]
    /\ Record(Step("cleanup", "-", KnownId, Null, << >>), {})
    /\ UNCHANGED <<docs, userSessions, rooms, sock, flushes, disk, now, nextOpId,
                   assigned, nCreated, proc, batched, ot, store>>

\* More than maxIdleTime (30 minutes) passes: every updatedAt becomes old.
\* By then every debounce timer (500 ms) has fired and every file operation
\* has returned.
ThirtyMinutesPass ==
    /\ proc = "running"
    /\ flushes = << >>
    /\ \A s \in Sockets : sock[s].phase \in {"idle", "disconnected"}
    /\ \A d \in AllIds : timers[d].reg # "pending" /\ timers[d].stale = 0
    /\ \E i \in 1 .. Len(docs) : docs[i].updatedAt = "recent"
    /\ docs' = [i \in 1 .. Len(docs) |-> [docs[i] EXCEPT !.updatedAt = "old"]]
    /\ disk' = [d \in AllIds |->
                  IF disk[d].kind = "snapshot"
                  THEN [disk[d] EXCEPT !.updatedAt = "old"] ELSE disk[d]]
    /\ Record(Step("idle", "-", KnownId, Null, << >>), {})
    /\ UNCHANGED <<activeDocuments, operationQueues, timers, userSessions, rooms,
                   sock, flushes, now, nextOpId, assigned, nCreated, proc, batched, ot, store>>

\* SIGINT / SIGTERM: saveAllDocuments saves every registered document, then
\* process.exit(0).
Shutdown ==
    /\ proc = "running"
    /\ proc' = "exited"
    /\ disk' = [d \in AllIds |->
                  IF \E k \in AllIds : activeDocuments[k] # 0 /\ docs[activeDocuments[k]].id = d
                  THEN Snapshot(docs[activeDocuments[
                           CHOOSE k \in AllIds : activeDocuments[k] # 0
                                                 /\ docs[activeDocuments[k]].id = d]])
                  ELSE disk[d]]
    /\ Record(Step("shutdown", "-", KnownId, Null, << >>), {})
    /\ UNCHANGED <<docs, activeDocuments, operationQueues, timers, userSessions,
                   rooms, sock, flushes, now, nextOpId, assigned, nCreated, batched, ot, store>>

(***************************************************************************)
(* The OT algebra on its own                                               *)
(***************************************************************************)

\* The inputs of one call: a text, an operation of user 1, an operation of
\* user 1 or of user 2, and the priority flag.
OTInputs ==
    \E s \in OTTexts, a \in OTOperations(1, <<"X">>),
       b \in OTOperations(1, <<"Y">>) \cup OTOperations(2, <<"Y">>),
       priority \in BOOLEAN :
        ot = [s |-> s, a |-> a, b |-> b, op1HasPriority |-> priority, out |-> Null]

\* transform(a, b, op1HasPriority) and the two orders of application, and
\* the call with the operations exchanged and the priority negated.
Transform ==
    /\ ot.out = Null
    /\ LET pair == transform(ot.a, ot.b, ot.op1HasPriority)
       IN  ot' = [ot EXCEPT !.out =
                    [call |-> "transform", a |-> pair[1], b |-> pair[2],
                     exchanged |-> transform(ot.b, ot.a, ~ot.op1HasPriority),
                     ab |-> applyOperation(applyOperation(ot.s, ot.a), pair[2]),
                     ba |-> applyOperation(applyOperation(ot.s, ot.b), pair[1])]]
    /\ UNCHANGED <<managerVars, store>>

\* mergeOperations([a, b]) for two operations of one user, b made on the
\* text that a leaves.
Merge ==
    /\ ot.out = Null
    /\ ot.a.userId = ot.b.userId
    /\ ot' = [ot EXCEPT !.out =
                 [call |-> "merge", merged |-> mergeOperations(<<ot.a, ot.b>>)]]
    /\ UNCHANGED <<managerVars, store>>

\* The operation as a client may send it: the 'operation' handler passes
\* operation.content and operation.length to the constructor whatever the
\* type, so an insert may carry a length and a delete a content.
AsSent(op) ==
    {op} \cup (CASE op.type = "insert" -> {[op EXCEPT !.length = l] : l \in 1 .. MaxRange}
                 [] op.type = "delete" -> {[op EXCEPT !.content = <<"X">>]}
                 [] OTHER -> {})

\* applyOperation(s, op)
Apply ==
    /\ ot.out = Null
    /\ \E op \in AsSent(ot.a) :
           ot' = [ot EXCEPT !.out =
                    [call |-> "apply", op |-> op, text |-> applyOperation(ot.s, op)]]
    /\ UNCHANGED <<managerVars, store>>

\* The operation as a caller of transform may hold it: of its own kind or a
\* 'retain', and with the id the constructor or clone() gave it.
Held(op, ids) ==
    {[o EXCEPT !.id = id] : o \in {op, [op EXCEPT !.type = "retain"]}, id \in ids}

\* transform(op1, op2, op1HasPriority) on operations that carry ids (two
\* operations have the same id when one is a clone of the other) and may be
\* retains.
TransformHeld ==
    /\ ot.out = Null
    /\ \E op1 \in Held(ot.a, {1}), op2 \in Held(ot.b, {1, 2}) :
           ot' = [ot EXCEPT !.out =
                    [call |-> "transformHeld", op1 |-> op1, op2 |-> op2,
                     pair |-> transform(op1, op2, ot.op1HasPriority)]]
    /\ UNCHANGED <<managerVars, store>>

\* Lines 180-223 of processOperationQueue on a queue of the two operations,
\* in either order of arrival, and the content s.
Flush ==
    /\ ot.out = Null
    /\ \E queue \in {<<ot.a, ot.b>>, <<ot.b, ot.a>>} :
           LET processedOperations == ProcessedOperations(queue)
               r == ApplyLoop(processedOperations, 1, ot.s, << >>)
           IN  ot' = [ot EXCEPT !.out =
                        [call |-> "flush", queue |-> queue,
                         processedOperations |-> processedOperations,
                         content |-> r.content,
                         appliedOperations |-> r.appliedOperations]]
    /\ UNCHANGED <<managerVars, store>>

NextOT == Transform \/ Merge \/ Apply \/ TransformHeld \/ Flush

InitOT == ManagerInit /\ OTInputs /\ StoreIdle

SpecOT == InitOT /\ [][NextOT]_vars

(***************************************************************************)
(* saveDocument on its own: <id>.json and <id>.json.tmp of one document    *)
(***************************************************************************)

\* The saveDocument calls (of join, leave and flush) for the one document;
\* call k saves snapshot k.  Snapshot 0 is the one on disk at the start.
Savers == 1 .. MaxSaves

\* The record of a snapshot as writeFile puts it into a file, in MaxChunks
\* writes; a file holding fewer writes, or writes of several records, is not
\* a complete record.
Written(snapshot) == [c \in 1 .. MaxChunks |-> snapshot]

\* store.files: the files ever created, by number; store.tmp and store.json:
\* the file that <id>.json.tmp and <id>.json name (0: none); store.pc: where
\* each saveDocument call is; store.data: what the last readFile returned.
StoreInit ==
    store = [files |-> <<Written(0)>>, tmp |-> 0, json |-> 1,
             pc |-> [k \in Savers |-> [at |-> "start", file |-> 0, offset |-> 0]],
             data |-> Written(0)]

\* fs.writeFile(tempFilePath, ...) opens the file with flag 'w': it is
\* created, or truncated when it exists.
OpenTmp(k) ==
    /\ store # Null
    /\ store.pc[k].at = "start"
    /\ IF store.tmp = 0
       THEN store' = [store EXCEPT !.files = Append(@, << >>),
                                   !.tmp = Len(store.files) + 1,
                                   !.pc[k] = [at |-> "writing",
                                              file |-> Len(store.files) + 1,
                                              offset |-> 0]]
       ELSE store' = [store EXCEPT !.files[store.tmp] = << >>,
                                   !.pc[k] = [at |-> "writing", file |-> store.tmp,
                                              offset |-> 0]]
    /\ UNCHANGED <<managerVars, ot>>

\* One write of writeFile, at the offset of its own descriptor.
WriteChunk(k) ==
    /\ store # Null
    /\ store.pc[k].at = "writing"
    /\ store.pc[k].offset < MaxChunks
    /\ LET f == store.pc[k].file
           at == store.pc[k].offset + 1
           old == store.files[f]
           new == [c \in 1 .. Max(Len(old), at) |->
                      IF c = at THEN k ELSE IF c <= Len(old) THEN old[c] ELSE 0]
       IN  store' = [store EXCEPT !.files[f] = new, !.pc[k].offset = at]
    /\ UNCHANGED <<managerVars, ot>>

\* fs.rename(tempFilePath, filePath) after writeFile has returned (line 120);
\* without a file of that name it throws, and the catch removes the temporary
\* file (line 127) and rethrows.
Rename(k) ==
    /\ store # Null
    /\ store.pc[k].at = "writing"
    /\ store.pc[k].offset = MaxChunks
    /\ IF store.tmp # 0
       THEN store' = [store EXCEPT !.json = store.tmp, !.tmp = 0,
                                   !.pc[k].at = "saved"]
       ELSE store' = [store EXCEPT !.pc[k].at = "failed"]
    /\ UNCHANGED <<managerVars, ot>>

\* fs.readFile(filePath) of loadDocument (line 67).
ReadFile ==
    /\ store # Null
    /\ store.data # store.files[store.json]
    /\ store' = [store EXCEPT !.data = store.files[store.json]]
    /\ UNCHANGED <<managerVars, ot>>

NextStore ==
    \/ \E k \in Savers : OpenTmp(k)
    \/ \E k \in Savers : WriteChunk(k)
    \/ \E k \in Savers : Rename(k)
    \/ ReadFile

InitStore == ManagerInit /\ OTIdle /\ StoreInit

SpecStore == InitStore /\ [][NextStore]_vars

(***************************************************************************)
(* The server                                                              *)
(***************************************************************************)

\* One client: every handler of socket "s1" on every id, with store
\* failures, eviction and shutdown.
Next ==
    \/ \E d \in ClientIds : JoinDocument("s1", d)
    \/ LoadDone("s1")
    \/ \E ok \in BOOLEAN : CreateSaved("s1", ok)
    \/ \E ok \in BOOLEAN : JoinSaved("s1", ok)
    \/ \E d \in ClientIds, input \in OpInputs, t \in {now, now + 1} :
           nextOpId <= MaxLifecycleOps /\ OperationEvent("s1", d, input, t)
    \/ \E d \in ClientIds : TimerFires(d)
    \/ \E i \in 1 .. Len(flushes), ok \in BOOLEAN : FlushSaved(i, ok)
    \/ Disconnect("s1")
    \/ \E ok \in BOOLEAN : LeaveSaved("s1", ok)
    \/ CleanupInactiveDocuments
    \/ ThirtyMinutesPass
    \/ Shutdown

Spec == Init /\ [][Next]_vars

\* One client on the persisted document, the store never failing: enqueues,
\* timers and flushes in every interleaving.
NextFlush ==
    \/ JoinDocument("s1", KnownId)
    \/ LoadDone("s1")
    \/ JoinSaved("s1", TRUE)
    \/ \E input \in OpInputs, t \in {now, now + 1} :
           nextOpId <= MaxOps /\ OperationEvent("s1", KnownId, input, t)
    \/ TimerFires(KnownId)
    \/ StaleTimerFires(KnownId)
    \/ \E i \in 1 .. Len(flushes) : FlushSaved(i, TRUE)
    \/ Disconnect("s1")
    \/ LeaveSaved("s1", TRUE)

SpecFlush == Init /\ [][NextFlush]_vars

\* Two clients on the persisted document, the store never failing.
NextPeers ==
    \/ \E s \in Sockets : JoinDocument(s, KnownId)
    \/ \E s \in Sockets : LoadDone(s)
    \/ \E s \in Sockets : JoinSaved(s, TRUE)
    \/ \E s \in Sockets, input \in OpInputs, t \in {now, now + 1} :
           nextOpId <= MaxPeerOps /\ OperationEvent(s, KnownId, input, t)
    \/ TimerFires(KnownId)
    \/ \E i \in 1 .. Len(flushes) : FlushSaved(i, TRUE)
    \/ \E s \in Sockets : Disconnect(s)
    \/ \E s \in Sockets : LeaveSaved(s, TRUE)

SpecPeers == Init /\ [][NextPeers]_vars

\* Two clients on the persisted document, the store never failing, every
\* operation the same insert stamped with the current clock value: joins,
\* leaves, echoes and flushes in every interleaving.
NextRoom ==
    \/ \E s \in Sockets : JoinDocument(s, KnownId)
    \/ \E s \in Sockets : LoadDone(s)
    \/ \E s \in Sockets : JoinSaved(s, TRUE)
    \/ \E s \in Sockets :
           nextOpId <= MaxRoomOps
           /\ OperationEvent(s, KnownId,
                  [type |-> "insert", position |-> 1, content |-> <<"X">>, length |-> 0],
                  now)
    \/ TimerFires(KnownId)
    \/ \E i \in 1 .. Len(flushes) : FlushSaved(i, TRUE)
    \/ \E s \in Sockets : Disconnect(s)
    \/ \E s \in Sockets : LeaveSaved(s, TRUE)

SpecRoom == Init /\ [][NextRoom]_vars

\* Two clients on the persisted document, no operations and no two loads at
\* once: joins, leaves whose save may fail, and the cleanup interval (the
\* document was last updated long ago), so that the document is evicted and
\* loaded again from its snapshot.
NextReload ==
    \/ \E s \in Sockets :
           (\A peer \in Sockets : sock[peer].phase # "loading") /\ JoinDocument(s, KnownId)
    \/ \E s \in Sockets : LoadDone(s)
    \/ \E s \in Sockets, ok \in BOOLEAN : JoinSaved(s, ok)
    \/ \E s \in Sockets : Disconnect(s)
    \/ \E s \in Sockets, ok \in BOOLEAN : LeaveSaved(s, ok)
    \/ CleanupInactiveDocuments

SpecReload == Init /\ [][NextReload]_vars

\* Two clients and two persisted documents, the store never failing: s1
\* joins one document and s2 the other, and each sends the same insert in
\* messages that name either document.
NextRouting ==
    \/ JoinDocument("s1", KnownId)
    \/ JoinDocument("s2", BareId)
    \/ \E s \in Sockets : LoadDone(s)
    \/ \E s \in Sockets : JoinSaved(s, TRUE)
    \/ \E s \in Sockets, d \in {KnownId, BareId} :
           nextOpId <= MaxRoomOps
           /\ OperationEvent(s, d,
                  [type |-> "insert", position |-> 1, content |-> <<"X">>, length |-> 0],
                  now)
    \/ \E d \in {KnownId, BareId} : TimerFires(d)
    \/ \E i \in 1 .. Len(flushes) : FlushSaved(i, TRUE)

SpecRouting == Init /\ [][NextRouting]_vars

\* Two clients join the persisted document, each once, and, once both have
\* joined, send inserts and deletes within its content, each at a later clock
\* value than the one before and none while a flush awaits its save; the
\* store never fails and nobody leaves: the batches of the debounce windows.
NextBatch ==
    \/ \E s \in Sockets : userSessions[s] = Null /\ JoinDocument(s, KnownId)
    \/ \E s \in Sockets : LoadDone(s)
    \/ \E s \in Sockets : JoinSaved(s, TRUE)
    \/ \E s \in Sockets, input \in BatchInputs :
           /\ nextOpId <= MaxBatchOps
           /\ \A peer \in Sockets : KnownId \in rooms[peer]
           /\ flushes = << >>
           /\ OperationEvent(s, KnownId, input, now + 1)
    \/ TimerFires(KnownId)
    \/ \E i \in 1 .. Len(flushes) : FlushSaved(i, TRUE)

SpecBatch == Init /\ [][NextBatch]_vars

\* One client on the persisted document whose file has no operations array:
\* every flush of its queue throws inside the loop of lines 210-223.
NextBare ==
    \/ JoinDocument("s1", BareId)
    \/ LoadDone("s1")
    \/ JoinSaved("s1", TRUE)
    \/ \E input \in OpInputs, t \in {now, now + 1} :
           nextOpId <= MaxOps /\ OperationEvent("s1", BareId, input, t)
    \/ TimerFires(BareId)
    \/ Disconnect("s1")
    \/ LeaveSaved("s1", TRUE)

SpecBare == Init /\ [][NextBare]_vars

\* One client on the persisted document sending the same insert again and
\* again, the store never failing: the debounce timers armed, dropped and
\* fired around the flushes.
NextTimers ==
    \/ JoinDocument("s1", KnownId)
    \/ LoadDone("s1")
    \/ JoinSaved("s1", TRUE)
    \/ /\ nextOpId <= MaxTimerOps
       /\ OperationEvent("s1", KnownId,
              [type |-> "insert", position |-> 1, content |-> <<"X">>, length |-> 0],
              now)
    \/ TimerFires(KnownId)
    \/ StaleTimerFires(KnownId)
    \/ \E i \in 1 .. Len(flushes) : FlushSaved(i, TRUE)

SpecTimers == Init /\ [][NextTimers]_vars

(***************************************************************************)
(* Properties                                                              *)
(***************************************************************************)

\* The steps that emitted a message of the event.
Emitted(step, event) == {i \in 1 .. Len(step.out) : step.out[i].event = event}

\* No processOperationQueue call of the document awaits its save.
NoFlushInProgress(documentId) ==
    \A i \in 1 .. Len(flushes) : flushes[i].documentId # documentId

\* The ids of the operations in the queues.
Queued == UNION {OpIds(operationQueues[d]) : d \in AllIds}

\* The operation is valid on text s: a known kind, a position within s, the
\* content or range its kind requires, the range within s.
ValidOn(s, op) ==
    /\ op.type \in {"insert", "delete", "replace"}
    /\ op.position >= 0 /\ op.position <= Len(s)
    /\ op.type \in {"insert", "replace"} => Len(op.content) > 0
    /\ op.type \in {"delete", "replace"} =>
           op.length > 0 /\ op.position + op.length <= Len(s)

\* The operations applied in order to the content, whatever their applied
\* flag says.
RECURSIVE ApplyAll(_, _)
ApplyAll(content, operations) ==
    IF operations = << >> THEN content
    ELSE ApplyAll(applyOperation(content, [Head(operations) EXCEPT !.applied = FALSE]),
                  Tail(operations))

\* C1 (convergence): once a document's queue is empty and no flush of it is
\* in progress, the content last delivered to every connected session (by
\* document-state, operation-immediate or document-sync) is the server's
\* content of the document.
C1_Convergence ==
    \A d \in ClientIds :
        (activeDocuments[d] # 0 /\ operationQueues[d] = << >> /\ NoFlushInProgress(d))
        => \A s \in Sockets :
               (sock[s].phase # "disconnected" /\ delivered[s][d] # << >>)
               => delivered[s][d][1] = DocumentOf(d).content

\* C2 (TP1): for a text s and operations a, b valid on s, with
\* (a', b') = transform(a, b, true) and neither absorbed, applying a then b'
\* to s gives the same text as applying b then a'.
C2_TP1 ==
    (/\ ot # Null
     /\ ot.out # Null
     /\ ot.out.call = "transform"
     /\ ot.op1HasPriority
     /\ ValidOn(ot.s, ot.a) /\ ValidOn(ot.s, ot.b)
     /\ ot.out.a # Null /\ ot.out.b # Null)
    => ot.out.ab = ot.out.ba

\* C3 (no accepted operation is lost): every operation the server has
\* accepted is still queued or has been part of the batch of a flush, also
\* when it was enqueued while a flush awaited its save.
C3_NoAcceptedOperationLost ==
    \A id \in 1 .. (nextOpId - 1) : id \in Queued \/ id \in batched

\* C4 (monotonic versions): the versions of the successive document-syncs of
\* a document are strictly increasing.
C4_SyncVersionsIncrease ==
    \A d \in ClientIds :
        \A i \in 1 .. Len(syncVersions[d]) : \A j \in 1 .. Len(syncVersions[d]) :
            i < j => syncVersions[d][i] < syncVersions[d][j]

\* C5 (flush content): the content a document-sync carries, which is the
\* server's content at that moment, is the result of applying the operations
\* the document-sync lists, in order, to the content before the flush.
C5_SyncContentIsAppliedBatch ==
    lastStep.action = "flush"
    => \A i \in Emitted(lastStep, "document-sync") :
           LET m == lastStep.out[i]
           IN  /\ m.content = DocumentOf(lastStep.room).content
               /\ m.content = ApplyAll(lastStep.info.before, m.operations)

\* C6 (admission): an inbound operation that is not valid on the current
\* content is rejected with an error to its sender: no echo, not queued, no
\* timer armed.
C6_InvalidOperationRejected ==
    (/\ lastStep.action = "operation"
     /\ ~ValidOn(DocumentOf(lastStep.room).content, lastStep.info))
    => /\ \E i \in Emitted(lastStep, "error") : lastStep.out[i].to = {lastStep.socket}
       /\ Emitted(lastStep, "operation-immediate") = {}
       /\ lastStep.info.id \notin OpIds(operationQueues[lastStep.room])
       /\ timers[lastStep.room].reg # "pending"

\* C7 (save failure): when the save of a flush fails, the flushed content
\* and version stay in memory and document-sync is still emitted to the
\* sessions of the document.
C7_SyncEmittedWhenSaveFails ==
    (lastStep.action = "flush" /\ ~lastStep.info.ok)
    => /\ DocumentOf(lastStep.room).content = lastStep.info.content
       /\ DocumentOf(lastStep.room).version = lastStep.info.version
       /\ \E i \in Emitted(lastStep, "document-sync") :
              lastStep.out[i].to = Members(rooms, lastStep.room)

\* C8 (leave forces flush): when peers are sent user-left for a session,
\* none of that session's operations is still in the queue: they have been
\* applied, persisted and announced by a document-sync, which empties the
\* queue.
C8_LeaveForcesFlush ==
    (/\ lastStep.action = "left"
     /\ \E i \in Emitted(lastStep, "user-left") : lastStep.out[i].to # {})
    => \A i \in 1 .. Len(operationQueues[lastStep.room]) :
           operationQueues[lastStep.room][i].userId # lastStep.info.user

\* C9 (lazy creation): after a join to an id without a usable snapshot has
\* succeeded, an empty-content document is registered in memory and
\* persisted under that id.
C9_CreatedUnderRequestedId ==
    (lastStep.action = "joined" /\ lastStep.info.ok /\ lastStep.room \in UnknownIds)
    => /\ activeDocuments[lastStep.room] # 0
       /\ disk[lastStep.room].kind = "snapshot"
       /\ disk[lastStep.room].content = << >>

\* C10 (shutdown): when the process has exited, every operation that was in
\* a queue has been applied and the content of every in-memory document is
\* the persisted one.
C10_ShutdownFlushes ==
    proc = "exited"
    => \A d \in AllIds :
           activeDocuments[d] # 0
           => /\ OpIds(operationQueues[d]) \subseteq batched
              /\ disk[DocumentOf(d).id].kind = "snapshot"
              /\ disk[DocumentOf(d).id].content = DocumentOf(d).content

\* C11 (atomic snapshot replacement): whatever the interleaving of the
\* saveDocument calls for one document, <id>.json always holds, and a reader
\* always gets, one complete record of a snapshot passed to a save (or the
\* initial one).
C11_ReaderSeesCompleteSnapshot ==
    store # Null
    => /\ \E k \in Savers \cup {0} : store.files[store.json] = Written(k)
       /\ \E k \in Savers \cup {0} : store.data = Written(k)

\* C12 (document-state once, and first): a successful join-document sends
\* its socket exactly one document-state, no other step sends one, and no
\* socket receives an operation-immediate or a document-sync of a document
\* before having received its document-state.
C12_DocumentStateOnceAndFirst ==
    /\ (lastStep.action = "joined" /\ lastStep.info.ok)
       => /\ Cardinality(Emitted(lastStep, "document-state")) = 1
          /\ \A i \in Emitted(lastStep, "document-state") :
                 lastStep.out[i].to = {lastStep.socket}
                 /\ lastStep.out[i].room = lastStep.room
    /\ ~(lastStep.action = "joined" /\ lastStep.info.ok)
       => Emitted(lastStep, "document-state") = {}
    /\ \A s \in Sockets : heard[s].early = {}

\* A document-sync reaches a joined socket while the other socket's join is
\* still waiting for its save.
C12_Witness ==
    /\ \E i \in Emitted(lastStep, "document-sync") : lastStep.out[i].to = {"s1"}
    /\ sock["s2"].phase = "joinSaving"
    /\ KnownId \in heard["s1"].state

\* C13 (users-updated is the subscriber set): every users-updated lists
\* exactly the sockets subscribed to the room of the document when it is
\* emitted, which are the sockets it is sent to.
C13_UsersUpdatedListsSubscribers ==
    \A i \in Emitted(lastStep, "users-updated") :
        lastStep.out[i].activeUsers = lastStep.out[i].to


\* C14: an operation-immediate goes to every socket subscribed to the
\* document's room except the socket that sent the operation, and a
\* document-sync goes to every socket subscribed to the room, the senders of
\* the batch's operations among them.
C14_DeliverySets ==
    /\ \A i \in Emitted(lastStep, "operation-immediate") :
           /\ lastStep.out[i].to = Members(rooms, lastStep.out[i].room) \ {lastStep.socket}
           /\ lastStep.out[i].room = lastStep.room
    /\ \A i \in Emitted(lastStep, "document-sync") :
           /\ lastStep.out[i].to = Members(rooms, lastStep.room)
           /\ lastStep.out[i].room = lastStep.room

\* A document-sync reaches both subscribers, one of them the sender of the
\* operation in its batch.
C14_Witness ==
    \E i \in Emitted(lastStep, "document-sync") :
        /\ lastStep.out[i].to = Sockets
        /\ \E j \in 1 .. Len(lastStep.out[i].operations) :
               \E s \in Sockets :
                   /\ userSessions[s] # Null
                   /\ userSessions[s].id = lastStep.out[i].operations[j].userId


\* C15 (merge correctness): for a text s and operations o1, o2 of one user,
\* o1 valid on s and o2 valid on the text o1 leaves, applying the output of
\* mergeOperations([o1, o2]) in its order to s gives the text that applying
\* o1 and then o2 to s gives.
C15_MergeKeepsText ==
    (/\ ot # Null
     /\ ot.out # Null
     /\ ot.out.call = "merge"
     /\ ValidOn(ot.s, ot.a)
     /\ ValidOn(applyOperation(ot.s, ot.a), ot.b))
    => ApplyAll(ot.s, ot.out.merged) = ApplyAll(ot.s, <<ot.a, ot.b>>)


\* What applyOperation inserts and what it removes: the content of an insert
\* or replace, the length of a delete or replace.
Inserted(op) == IF op.type \in {"insert", "replace"} THEN CLen(op) ELSE 0
Removed(op) == IF op.type \in {"delete", "replace"} THEN DLen(op) ELSE 0

\* C20 (apply length relation), amended: for a text s and an insert, delete
\* or replace valid on s, |applyOperation(s, op)| = |s| + c - l, where c is
\* |op.content| for an insert or replace and 0 for a delete, and l is
\* op.length for a delete or replace and 0 for an insert.
C20_ApplyLength ==
    (/\ ot # Null
     /\ ot.out # Null
     /\ ot.out.call = "apply"
     /\ ValidOn(ot.s, ot.out.op))
    => Len(ot.out.text) = Len(ot.s) + Inserted(ot.out.op) - Removed(ot.out.op)

\* C20 as stated: |applyOperation(s, op)| = |s| + |op.content| - op.length
\* for every insert, delete or replace valid on s.
C20_ApplyLengthAsStated ==
    (/\ ot # Null
     /\ ot.out # Null
     /\ ot.out.call = "apply"
     /\ ValidOn(ot.s, ot.out.op))
    => Len(ot.out.text) = Len(ot.s) + CLen(ot.out.op) - DLen(ot.out.op)

\* A valid delete that carries a content has been applied and has shortened
\* the text.
C20_Witness ==
    /\ ot # Null
    /\ ot.out # Null
    /\ ot.out.call = "apply"
    /\ ValidOn(ot.s, ot.out.op)
    /\ ot.out.op.type = "delete"
    /\ CLen(ot.out.op) > 0
    /\ Len(ot.out.text) < Len(ot.s)


\* The flush of the batch of one debounce window has saved and emits: the
\* queue still is the batch it took, so nothing was enqueued meanwhile.
QuietFlush ==
    /\ lastStep.action = "flush"
    /\ lastStep.info.ok
    /\ lastStep.info.queued = lastStep.info.queue

\* Inserts of one character each by one user, each one position after the
\* one before.
ConsecutiveInserts(queue) ==
    /\ Len(queue) >= 1
    /\ \A i \in 1 .. Len(queue) :
           /\ queue[i].type = "insert"
           /\ CLen(queue[i]) = 1
           /\ queue[i].userId = queue[1].userId
    /\ \A i \in 2 .. Len(queue) : queue[i].position = queue[i - 1].position + 1

\* The contents of the operations, one after the other.
RECURSIVE Contents(_)
Contents(queue) ==
    IF queue = << >> THEN << >> ELSE Head(queue).content \o Contents(Tail(queue))

\* C16 (debounce coalescing): every insert a client sends is echoed by one
\* operation-immediate to the other subscribers, and the flush of a window
\* that holds just k >= 1 one-character inserts by one user at consecutive
\* advancing positions emits exactly one document-sync, whose operations are
\* exactly one insert carrying the k characters in order at the first
\* insert's position, and whose version is the version before the flush
\* plus 1.
C16_DebounceCoalescing ==
    /\ (lastStep.action = "operation" /\ lastStep.info.type = "insert")
       => /\ Cardinality(Emitted(lastStep, "operation-immediate")) = 1
          /\ \A i \in Emitted(lastStep, "operation-immediate") :
                 lastStep.out[i].to = Members(rooms, lastStep.room) \ {lastStep.socket}
    /\ (QuietFlush /\ ConsecutiveInserts(lastStep.info.queue))
       => /\ Cardinality(Emitted(lastStep, "document-sync")) = 1
          /\ \A i \in Emitted(lastStep, "document-sync") :
                 LET sync == lastStep.out[i] IN
                 /\ Len(sync.operations) = 1
                 /\ sync.operations[1].type = "insert"
                 /\ sync.operations[1].position = lastStep.info.queue[1].position
                 /\ sync.operations[1].content = Contents(lastStep.info.queue)
                 /\ sync.version = lastStep.info.fromVersion + 1

\* The flush of a window of two consecutive inserts by one user has emitted
\* its document-sync to both subscribers.
C16_Witness ==
    /\ QuietFlush
    /\ ConsecutiveInserts(lastStep.info.queue)
    /\ Len(lastStep.info.queue) = 2
    /\ \E i \in Emitted(lastStep, "document-sync") : lastStep.out[i].to = Sockets


\* The positions (from 0) that a delete removes.
Range(op) == op.position .. (op.position + op.length - 1)

\* The text without the characters at the positions (from 0) of the set.
RECURSIVE Keep(_, _, _)
Keep(s, removed, i) ==
    IF i > Len(s) THEN << >>
    ELSE (IF (i - 1) \in removed THEN << >> ELSE <<s[i]>>) \o Keep(s, removed, i + 1)
WithoutPositions(s, removed) == Keep(s, removed, 1)

\* Two deletes of different users with distinct timestamps whose ranges
\* overlap without one holding the other, both within the text.
OverlappingDeletes(queue, s) ==
    /\ Len(queue) = 2
    /\ \A i \in 1 .. 2 : queue[i].type = "delete" /\ ValidOn(s, queue[i])
    /\ queue[1].userId # queue[2].userId
    /\ queue[1].timestamp # queue[2].timestamp
    /\ Range(queue[1]) \cap Range(queue[2]) # {}
    /\ Range(queue[1]) \ Range(queue[2]) # {}
    /\ Range(queue[2]) \ Range(queue[1]) # {}

\* C17 (overlapping deletes): the flush of a window that holds two deletes by
\* different users with distinct timestamps and partially overlapping ranges
\* absorbs neither, transformDeleteDelete leaves each with its length minus
\* the overlap, and the content of the document-sync is the content before
\* the flush without the union of the two ranges.
C17_OverlappingDeletes ==
    (QuietFlush /\ OverlappingDeletes(lastStep.info.queue, lastStep.info.before))
    => LET d1 == lastStep.info.queue[1]
           d2 == lastStep.info.queue[2]
           overlap == Cardinality(Range(d1) \cap Range(d2))
           pair == transformDeleteDelete(d2, d1)
       IN  /\ pair[1] # Null /\ pair[1].length = d2.length - overlap
           /\ pair[2] # Null /\ pair[2].length = d1.length - overlap
           /\ \A i \in Emitted(lastStep, "document-sync") :
                  /\ Len(lastStep.out[i].operations) = 2
                  /\ lastStep.out[i].content =
                         WithoutPositions(lastStep.info.before, Range(d1) \cup Range(d2))


\* Two inserts of different users at one position of the text, with
\* different timestamps.
SamePositionInserts(queue, s) ==
    /\ Len(queue) = 2
    /\ \A i \in 1 .. 2 : queue[i].type = "insert" /\ ValidOn(s, queue[i])
    /\ queue[1].userId # queue[2].userId
    /\ queue[1].timestamp # queue[2].timestamp
    /\ queue[1].position = queue[2].position

\* C18 (concurrent inserts at one position): the flush of a window that holds
\* an insert of each of two users at the same position, with different
\* timestamps, emits one document-sync to every subscriber; its content is
\* the content before the flush with both inserted strings at that position,
\* the one with the earlier timestamp first, and its version is the version
\* before the flush plus 1.
C18_SamePositionInserts ==
    (QuietFlush /\ SamePositionInserts(lastStep.info.queue, lastStep.info.before))
    => LET queue == lastStep.info.queue
           first == IF queue[1].timestamp < queue[2].timestamp THEN queue[1] ELSE queue[2]
           second == IF queue[1].timestamp < queue[2].timestamp THEN queue[2] ELSE queue[1]
           before == lastStep.info.before
       IN  /\ Cardinality(Emitted(lastStep, "document-sync")) = 1
           /\ \A i \in Emitted(lastStep, "document-sync") :
                  /\ lastStep.out[i].to = Members(rooms, lastStep.room)
                  /\ lastStep.out[i].content =
                         Slice(before, 0, first.position) \o first.content
                             \o second.content \o SliceFrom(before, first.position)
                  /\ lastStep.out[i].version = lastStep.info.fromVersion + 1

\* The flush of a window with "X" and then "Y" inserted at position 1 by two
\* users has emitted its document-sync to both.
C18_Witness ==
    /\ QuietFlush
    /\ SamePositionInserts(lastStep.info.queue, lastStep.info.before)
    /\ lastStep.info.queue[1].content # lastStep.info.queue[2].content
    /\ \E i \in Emitted(lastStep, "document-sync") : lastStep.out[i].to = Sockets


\* A delete of one user and an insert of another with a later timestamp, at a
\* position strictly inside the deleted range, both within the text:
\* <<delete, insert>>, or << >> when the queue is not that.
DeleteThenInsertInside(queue, s) ==
    IF Len(queue) # 2 THEN << >>
    ELSE LET found == {pair \in {<<queue[1], queue[2]>>, <<queue[2], queue[1]>>} :
                          /\ pair[1].type = "delete" /\ pair[2].type = "insert"
                          /\ ValidOn(s, pair[1]) /\ ValidOn(s, pair[2])
                          /\ pair[1].userId # pair[2].userId
                          /\ pair[1].timestamp < pair[2].timestamp
                          /\ pair[1].position < pair[2].position
                          /\ pair[2].position < pair[1].position + pair[1].length}
         IN  IF found = {} THEN << >> ELSE CHOOSE pair \in found : TRUE

\* C19 (insert inside a concurrent delete): the flush of a window that holds
\* one user's delete and another user's later insert at a position strictly
\* inside the deleted range emits a document-sync whose content is the
\* content before the flush without the deleted range and with the inserted
\* text at the delete's start position.
C19_InsertInsideDelete ==
    (QuietFlush
     /\ DeleteThenInsertInside(lastStep.info.queue, lastStep.info.before) # << >>)
    => LET pair == DeleteThenInsertInside(lastStep.info.queue, lastStep.info.before)
           before == lastStep.info.before
       IN  /\ Cardinality(Emitted(lastStep, "document-sync")) = 1
           /\ \A i \in Emitted(lastStep, "document-sync") :
                  lastStep.out[i].content =
                      Slice(before, 0, pair[1].position) \o pair[2].content
                          \o SliceFrom(before, pair[1].position + pair[1].length)

\* The flush of a window with delete(0, 2) and then an insert at position 1
\* has emitted its document-sync.
C19_Witness ==
    /\ QuietFlush
    /\ DeleteThenInsertInside(lastStep.info.queue, lastStep.info.before) # << >>
    /\ lastStep.info.before = InitialContent
    /\ \E i \in Emitted(lastStep, "document-sync") : lastStep.out[i].to = Sockets


\* transform has been called on operations that carry ids.
TransformedHeld == ot # Null /\ ot.out # Null /\ ot.out.call = "transformHeld"

\* C21 (identity), amended: for operations with different ids and either
\* priority value, transform(a, retain, p) returns (a, retain) and
\* transform(retain, b, p) returns (retain, b), both unchanged.
C21_RetainIdentity ==
    (/\ TransformedHeld
     /\ ot.out.op1.id # ot.out.op2.id
     /\ (ot.out.op1.type = "retain" \/ ot.out.op2.type = "retain"))
    => ot.out.pair = <<ot.out.op1, ot.out.op2>>

\* C21 as stated: whenever either operation is a retain, transform returns
\* both unchanged.
C21_RetainIdentityAsStated ==
    (/\ TransformedHeld
     /\ (ot.out.op1.type = "retain" \/ ot.out.op2.type = "retain"))
    => ot.out.pair = <<ot.out.op1, ot.out.op2>>

\* transform has been called on a delete and a retain with different ids.
C21_Witness ==
    /\ TransformedHeld
    /\ ot.out.op1.type = "delete"
    /\ ot.out.op2.type = "retain"
    /\ ot.out.op1.id # ot.out.op2.id
    /\ ~ot.op1HasPriority

\* C22 (id idempotence): for operations a and b with the same id, whatever
\* their kinds and positions and whatever the priority, transform(a, b, p)
\* returns a unchanged as its first component and no operation as its second.
C22_SameIdIdempotent ==
    (TransformedHeld /\ ot.out.op1.id = ot.out.op2.id)
    => ot.out.pair = <<ot.out.op1, Null>>

\* transform has been called on an insert and a delete at different
\* positions that have the same id.
C22_Witness ==
    /\ TransformedHeld
    /\ ot.out.op1.id = ot.out.op2.id
    /\ ot.out.op1.type = "insert"
    /\ ot.out.op2.type = "delete"
    /\ ot.out.op1.position # ot.out.op2.position


\* C23 (per-document serialization): while a flush of a document is between
\* reading the queue and clearing it (it awaits the store write), the queue
\* is the batch the flush took, so no enqueue has taken effect, and no second
\* flush of the document is in progress.
C23_FlushIsExclusive ==
    \A i \in 1 .. Len(flushes) :
        /\ operationQueues[flushes[i].documentId] = flushes[i].queue
        /\ \A j \in 1 .. Len(flushes) :
               flushes[j].documentId = flushes[i].documentId => j = i


\* A processOperationQueue call has just applied a batch: the record of the
\* flush it started.
FlushStarted == Len(flushes') = Len(flushes) + 1
StartedFlush == flushes'[Len(flushes')]

\* C24 (at-most-once application): an operation that was part of the batch
\* of an earlier flush has no effect in a later one, so every flush leaves
\* the content that the operations of its batch not flushed before give,
\* also after a failed save and while an earlier flush awaits its write.
C24_AppliedAtMostOnce ==
    [][FlushStarted =>
          LET f == StartedFlush
              NotFlushedBefore(op) == op.id \notin batched
              fresh == SelectSeq(f.queue, NotFlushedBefore)
          IN  f.content = FlushDocument(DocumentOf(f.documentId), fresh).document.content]_vars


\* x is not after y in the order by timestamp, ties broken by userId.
NotAfter(x, y) ==
    x.timestamp < y.timestamp \/ (x.timestamp = y.timestamp /\ x.userId <= y.userId)

\* C25 (flush order): a flush applies its merged batch in ascending
\* timestamp order, ties broken by userId, and applies an operation only
\* after transforming it against every operation of another user applied
\* before it in the batch.
C25_FlushOrder ==
    (ot # Null /\ ot.out # Null /\ ot.out.call = "flush")
    => LET applied == ot.out.appliedOperations
           processed == ot.out.processedOperations
       IN  /\ \A i \in 1 .. Len(applied) : \A j \in 1 .. Len(applied) :
                  i < j => NotAfter(applied[i], applied[j])
           /\ (Len(processed) = 2 /\ Len(applied) = 2
                /\ processed[1].userId # processed[2].userId)
              => [applied[2] EXCEPT !.applied = FALSE]
                     = transform(processed[2], applied[1], FALSE)[1]


\* The debounce timer of the document has fired on a non-empty queue and
\* processOperationQueue has ended without reaching its save: an exception
\* in its try block took it to the catch.
FlushThrew(d) ==
    /\ timers[d].reg = "pending" /\ timers'[d].reg = "fired"
    /\ activeDocuments[d] # 0
    /\ operationQueues[d] # << >>
    /\ flushes' = flushes

\* C26 (flush failure rollback): when an exception occurs while a flush
\* transforms and applies its batch, the document's content and version are
\* as before the flush and the queue is empty afterwards.
C26_FlushFailureRollback ==
    [][\A d \in AllIds :
          FlushThrew(d)
          => /\ docs'[activeDocuments'[d]].content = docs[activeDocuments[d]].content
             /\ docs'[activeDocuments'[d]].version = docs[activeDocuments[d]].version
             /\ operationQueues'[d] = << >>]_vars


\* The setTimeout timers of the document that are armed: the one registered
\* in debouncedSaves, if it has not fired, and those whose handle has been
\* dropped from the map.
ArmedTimers(d) == (IF timers[d].reg = "pending" THEN 1 ELSE 0) + timers[d].stale

\* C27 (single debounce timer): at most one debounce timer is armed per
\* document, every enqueue having cancelled the one armed before it.
C27_SingleDebounceTimer ==
    \A d \in AllIds : ArmedTimers(d) <= 1


\* C28 (no stuck Dirty state): while the server runs, a registered document
\* whose queue is non-empty and of which no flush is in progress (none awaits
\* its save, and no leave is in its forced flush) has a debounce timer
\* armed.
C28_NoStuckDirty ==
    \A d \in AllIds :
        (/\ proc = "running"
         /\ activeDocuments[d] # 0
         /\ operationQueues[d] # << >>
         /\ NoFlushInProgress(d)
         /\ \A s \in Sockets :
                ~(sock[s].phase = "leaveSaving" /\ sock[s].documentId = d))
        => ArmedTimers(d) >= 1


\* The version of the document registered under the id.
VersionOf(d) == docs[activeDocuments[d]].version

\* The step is a processOperationQueue call that applied a batch of the
\* document: one started by a timer, or the forced flush of a leave.
FlushedNow(d) ==
    \/ FlushStarted /\ StartedFlush.documentId = d
    \/ /\ lastStep'.action = "disconnect" /\ lastStep'.room = d
       /\ userSessions # userSessions'
       /\ \E s \in Sockets :
              /\ sock[s].phase = "idle" /\ sock'[s].phase = "leaveSaving"
              /\ ForcesFlush(userSessions'[s], d)

\* C29 (version): a flush that applies a batch raises the version of its
\* document by exactly 1, and no other step (enqueue with echo, join, leave,
\* save) changes the version of a document that is in memory before and
\* after it.
C29_VersionChangesOnlyInFlush ==
    [][\A d \in AllIds :
          (activeDocuments[d] # 0 /\ activeDocuments'[d] # 0)
          => IF FlushedNow(d)
             THEN VersionOf(d)' = VersionOf(d) + 1
             ELSE VersionOf(d)' = VersionOf(d)]_vars


\* The step is an 'operation' handler: it ran queueOperation for document d.
OperationHandled(d) == nextOpId' # nextOpId /\ lastStep'.room = d

\* C30 (immediate echo leaves canonical state alone): handling an inbound
\* operation, up to and including the emission of operation-immediate,
\* leaves the document's content, version and applied operations unchanged;
\* of the engine's state only the document's queue, which gains the
\* operation, and its debounce timer, which is armed, change.
C30_EchoLeavesDocument ==
    [][\A d \in AllIds :
          OperationHandled(d)
          => /\ activeDocuments' = activeDocuments
             /\ DocumentOf(d)'.content = DocumentOf(d).content
             /\ DocumentOf(d)'.version = DocumentOf(d).version
             /\ DocumentOf(d)'.operations = DocumentOf(d).operations
             /\ docs' = docs
             /\ disk' = disk /\ flushes' = flushes
             /\ userSessions' = userSessions /\ rooms' = rooms
             /\ operationQueues' = [operationQueues EXCEPT ![d] = Append(@, lastStep'.info)]
             /\ timers'[d].reg = "pending"
             /\ \A e \in AllIds \ {d} : timers'[e] = timers[e]]_vars

\* An operation has just been echoed to the other subscriber of a document
\* that an earlier flush had changed: the echo was transformed against a
\* non-empty tail and its text differs from the document's content.
C30_Witness ==
    /\ lastStep.action = "operation"
    /\ \E i \in Emitted(lastStep, "operation-immediate") :
           /\ lastStep.out[i].to # {}
           /\ lastStep.out[i].tempContent # DocumentOf(lastStep.room).content
    /\ DocumentOf(lastStep.room).version > 1
    /\ DocumentOf(lastStep.room).operations # << >>
    /\ operationQueues[lastStep.room] # << >>


\* transform has been called on the two operations of the inputs.
Transformed == ot # Null /\ ot.out # Null /\ ot.out.call = "transform"

\* The operation is a delete or a replace of no characters.
ZeroLength(op) == op # Null /\ op.type \in {"delete", "replace"} /\ op.length = 0

\* C31 (zero-length absorption): for operations whose ranges are not empty
\* and either priority value, neither operation transform returns is a
\* delete or a replace of length 0; an operation with nothing left to remove
\* is returned as absent.
C31_ZeroLengthAbsorbed ==
    Transformed => ~ZeroLength(ot.out.a) /\ ~ZeroLength(ot.out.b)


\* What the claim compares of an operation: kind, position, content, length.
Shape(op) ==
    IF op = Null THEN Null
    ELSE [type |-> op.type, position |-> op.position,
          content |-> op.content, length |-> op.length]

\* C32 (transform symmetry): for operations a, b of kinds insert, delete,
\* replace and every priority p, transform(b, a, not p) returns the two
\* operations of transform(a, b, p) with the components exchanged.
C32_TransformSymmetry ==
    Transformed
    => /\ Shape(ot.out.exchanged[1]) = Shape(ot.out.b)
       /\ Shape(ot.out.exchanged[2]) = Shape(ot.out.a)


\* The step registered a document object parsed from the snapshot of the
\* requested id (loadDocument lines 75-90) and added the joiner to it.
LoadedFromSnapshot ==
    /\ lastStep.action = "load"
    /\ activeDocuments[lastStep.room] = Len(docs)
    /\ Len(docs) > 0

\* C33 (presence is transient): a document loaded from its persisted
\* snapshot starts with an empty presence map, whatever activeUsers the
\* snapshot holds: once the joiner that caused the load has been added, the
\* map holds the joiner only.
C33_PresenceClearedOnLoad ==
    LoadedFromSnapshot => docs[Len(docs)].activeUsers \subseteq {lastStep.socket}


\* Lines 180-223 have run on a queue of the two operations.
Flushed == ot # Null /\ ot.out # Null /\ ot.out.call = "flush"

\* C34 (single-user serial equivalence): for a batch of two operations of
\* one user, the first valid on the content s and the second valid on the
\* text the first leaves, the content the flush commits is the text that
\* applying the two in arrival order to s gives.
C34_SingleUserSerial ==
    (/\ Flushed
     /\ ot.out.queue = <<ot.a, ot.b>>
     /\ ot.a.userId = ot.b.userId
     /\ ValidOn(ot.s, ot.a)
     /\ ValidOn(applyOperation(ot.s, ot.a), ot.b))
    => ot.out.content = applyOperation(applyOperation(ot.s, ot.a), ot.b)


\* C35 (echo agrees with the canonical result): when one valid operation is
\* enqueued on an empty queue and the next step is the flush of that
\* operation alone, the tempContent of its operation-immediate is the
\* content the flush commits and its document-sync carries, whatever
\* operations the document's tail holds.
C35_EchoMatchesSync ==
    [][(/\ lastStep.action = "operation"
        /\ FlushStarted
        /\ StartedFlush.queue = <<lastStep.info>>
        /\ ValidOn(StartedFlush.before, lastStep.info))
       => \A i \in Emitted(lastStep, "operation-immediate") :
              lastStep.out[i].tempContent = StartedFlush.content]_vars


\* The session of socket s has joined document d: its join of d has got as
\* far as addUserToDocument, so it is in the document's presence map, its
\* session names the document or it is in the document's room.
HasJoined(s, d) ==
    \/ userSessions[s] # Null /\ userSessions[s].documentId = d
    \/ d \in rooms[s]
    \/ activeDocuments[d] # 0 /\ s \in DocumentOf(d).activeUsers

\* C36 (routing isolation): an operation message is queued and echoed only
\* on a document its session has joined, whatever documentId it names.
C36_RoutingIsolation ==
    lastStep.action = "operation"
    => /\ HasJoined(lastStep.socket, lastStep.room)
       /\ \A i \in Emitted(lastStep, "operation-immediate") :
              HasJoined(lastStep.socket, lastStep.out[i].room)


\* No join-document or disconnect handler is between its awaits.
NoJoinOrLeaveInProgress == \A s \in Sockets : sock[s].phase \in {"idle", "disconnected"}

\* The socket is in the presence map of the document registered under d.
Present(s, d) == activeDocuments[d] # 0 /\ s \in DocumentOf(d).activeUsers

\* C37 (registry consistency): with no join or leave in progress, a socket
\* has a session with documentId D exactly when it is in the presence map of
\* the in-memory document registered under D, and no socket is in the
\* presence map of more than one document.
C37_RegistryConsistency ==
    NoJoinOrLeaveInProgress
    => \A s \in Sockets :
           /\ \A d \in AllIds :
                  (userSessions[s] # Null /\ userSessions[s].documentId = d) <=> Present(s, d)
           /\ \A d1, d2 \in AllIds : (Present(s, d1) /\ Present(s, d2)) => d1 = d2


\* The join-document of a socket that had joined nothing before has ended
\* with an error sent to the joiner.
JoinFailed ==
    /\ lastStep.action \in {"create", "joined"}
    /\ ~lastStep.info.ok
    /\ Emitted(lastStep, "error") # {}
    /\ rooms[lastStep.socket] = {}

\* C38 (a failed join leaves no trace): when join-document fails, the joiner
\* receiving error instead of document-state, the socket has no session and
\* is in no document's presence map afterwards.
C38_FailedJoinLeavesNoTrace ==
    JoinFailed
    => /\ userSessions[lastStep.socket] = Null
       /\ \A i \in 1 .. Len(docs) : lastStep.socket \notin docs[i].activeUsers


\* The step evicts the document registered under d.
Evicted(d) == activeDocuments[d] # 0 /\ activeDocuments'[d] = 0

\* The snapshot of the document holds its in-memory content and version.
Persisted(document) ==
    /\ disk[document.id].kind = "snapshot"
    /\ disk[document.id].content = document.content
    /\ disk[document.id].version = document.version

\* C39 (idle eviction loses no accepted edit): when cleanupInactiveDocuments
\* evicts a document, its queue is empty and its content and version are
\* those of its persisted snapshot.
C39_EvictionLosesNothing ==
    [][\A d \in AllIds :
          Evicted(d) => operationQueues[d] = << >> /\ Persisted(DocumentOf(d))]_vars


\* The operation removes a range of the text.
HasRange(op) == op.type \in {"delete", "replace"}

\* The affected ranges of the two operations do not overlap: two inserts; an
\* insert whose position is not strictly inside the range the other removes;
\* two removed ranges that are disjoint.
RangesApart(a, b) ==
    /\ (a.type = "insert" /\ HasRange(b))
       => ~(b.position < a.position /\ a.position < b.position + b.length)
    /\ (HasRange(a) /\ b.type = "insert")
       => ~(a.position < b.position /\ b.position < a.position + a.length)
    /\ (HasRange(a) /\ HasRange(b))
       => (a.position + a.length <= b.position \/ b.position + b.length <= a.position)

\* C40 (restricted TP1): for a text s and operations a, b valid on s whose
\* affected ranges do not overlap, with (a', b') = transform(a, b, true),
\* applying a then b' to s gives the text that applying b then a' gives.
C40_RestrictedTP1 ==
    (/\ Transformed
     /\ ot.op1HasPriority
     /\ ValidOn(ot.s, ot.a) /\ ValidOn(ot.s, ot.b)
     /\ RangesApart(ot.a, ot.b))
    => ot.out.ab = ot.out.ba


\* transform has moved a replace that lies after the range of a delete: both
\* orders of application give one text, which differs from s.
C40_Witness ==
    /\ Transformed
    /\ ot.op1HasPriority
    /\ ValidOn(ot.s, ot.a) /\ ValidOn(ot.s, ot.b)
    /\ ot.a.type = "delete" /\ ot.b.type = "replace"
    /\ ot.a.position + ot.a.length <= ot.b.position
    /\ ot.out.b # Null /\ ot.out.b.position = ot.b.position - ot.a.length
    /\ ot.out.ab = ot.out.ba
    /\ Len(ot.out.ab) < Len(ot.s)

=============================================================================
